---- MODULE Spec2Model ----
(***************************************************************************)
(* Document understanding pipeline of blueparser: classification of a      *)
(* drawing from its OCR text, zone segmentation of the text items, the     *)
(* universal extractors, the specialized parsers and the validator.        *)
(*                                                                         *)
(* Texts are TLA+ strings read character by character (SubSeq).            *)
(* Coordinates are integers n standing for the binary floating point       *)
(* number nearest to n/100, which is what the literal n/100 denotes in     *)
(* the source.                                                             *)
(***************************************************************************)
EXTENDS Integers, Sequences, FiniteSets, TLC

VARIABLES
    text_items,      \* ocr_results['text_items'], the input of one run
    hash_seed,       \* the hash seed of the process, which orders its sets
    pc,              \* position of the run
    classification,  \* DrawingParser.parse: classification
    zones,           \* the zone mapping computed by the run
    universal_data,  \* DrawingParser.parse: universal_data
    failed,          \* the universal extractors that raised in this run
    specialized_data,\* DrawingParser.parse: specialized_data
    parser_called,   \* the specialized parser whose parse the run has called
    result,          \* what DrawingParser.parse returned
    validation,      \* what DrawingValidator.validate returned
    batch_jobs,      \* app.py: batch_jobs
    processing_results, \* app.py: processing_results
    batch_task,      \* the background task of each batch and its locals
    response,        \* what the last request to a batch endpoint was answered
    deleted          \* the batches for which delete_batch has returned

\* the variables of a run of the parser on one page
parse_vars == <<text_items, hash_seed, pc, classification, zones, universal_data, failed,
                specialized_data, parser_called, result, validation>>

\* the variables of the batch service
app_vars == <<batch_jobs, processing_results, batch_task, response, deleted>>

vars == <<parse_vars, app_vars>>

\* Python's None where a string may stand, and the value of a variable the
\* run has not assigned yet.
None == "None"
Unset == "unset"

\* no request has been answered yet
NoResponse == [endpoint |-> None, code |-> 0, batch_id |-> None, status |-> None]

\* A slot that holds a dict, a list or None: None, or the value v.
NoneValue == [is_none |-> TRUE]
Some(v) == [is_none |-> FALSE, value |-> v]

\* {}
EmptyDict == <<>>

-----------------------------------------------------------------------------
(* Bounds of the model.                                                    *)

\* Longest text-item list of a run of the pipeline.
MaxItems == 2
\* Longest text-item list handed to the classifier alone.
MaxClassifyItems == 3
\* Longest text-item list handed to a zone scheme alone.
MaxZoneItems == 3
\* Longest text-item list handed to the table extractor alone, the grid apart.
MaxTableItems == 4

-----------------------------------------------------------------------------
(* Strings.                                                                *)

Ch(s, i) == SubSeq(s, i, i)

LowerAlphabet == "abcdefghijklmnopqrstuvwxyz"
UpperAlphabet == "ABCDEFGHIJKLMNOPQRSTUVWXYZ"
DigitChars == {"0", "1", "2", "3", "4", "5", "6", "7", "8", "9"}
\* \s of the re module, as far as the texts of the model go
SpaceChars == {" ", "\n", "\t"}

IsLower(c) == \E i \in 1..26 : Ch(LowerAlphabet, i) = c
IsUpper(c) == \E i \in 1..26 : Ch(UpperAlphabet, i) = c

upper_ch(c) ==
    IF IsLower(c)
    THEN Ch(UpperAlphabet, CHOOSE i \in 1..26 : Ch(LowerAlphabet, i) = c)
    ELSE c

lower_ch(c) ==
    IF IsUpper(c)
    THEN Ch(LowerAlphabet, CHOOSE i \in 1..26 : Ch(UpperAlphabet, i) = c)
    ELSE c

RECURSIVE upper(_)
\* str.upper(): character by character, one half of s after the other
upper(s) ==
    IF Len(s) <= 1 THEN upper_ch(s)
    ELSE upper(SubSeq(s, 1, Len(s) \div 2)) \o upper(SubSeq(s, Len(s) \div 2 + 1, Len(s)))

RECURSIVE lower(_)
\* str.lower()
lower(s) ==
    IF Len(s) <= 1 THEN lower_ch(s)
    ELSE lower(SubSeq(s, 1, Len(s) \div 2)) \o lower(SubSeq(s, Len(s) \div 2 + 1, Len(s)))

\* kw in s
Contains(s, kw) ==
    \E i \in 1..(Len(s) - Len(kw) + 1) : SubSeq(s, i, i + Len(kw) - 1) = kw

RECURSIVE join(_)
\* ' '.join(texts)
join(texts) ==
    IF texts = <<>> THEN ""
    ELSE IF Len(texts) = 1 THEN texts[1]
    ELSE texts[1] \o " " \o join(Tail(texts))

\* [item['text'] for item in items]
Texts(items) == [i \in 1..Len(items) |-> items[i].text]

\* full_text = ' '.join([item['text'] for item in text_items])
full_text(items) == join(Texts(items))

\* sum(1 for kw in kws if kw in text)
RECURSIVE CountKeywords(_, _)
CountKeywords(kws, text) ==
    IF kws = <<>> THEN 0
    ELSE (IF Contains(text, Head(kws)) THEN 1 ELSE 0) + CountKeywords(Tail(kws), text)

\* any(kw in text for kw in kws)
AnyKeyword(kws, text) == \E i \in 1..Len(kws) : Contains(text, kws[i])

Max(S) == CHOOSE m \in S : \A x \in S : x <= m

\* the elements of a list
Range(seq) == {seq[i] : i \in 1..Len(seq)}

-----------------------------------------------------------------------------
(* Binary floating point.  DblErr[n + 1] is the distance from n/100 to the *)
(* double nearest to it, in units of 2^-60 / 100: the double that the      *)
(* literal n/100 denotes is (n * 2^60 + DblErr[n + 1]) / (100 * 2^60).     *)

DblErr ==
    <<0, 24, 48, -128, 96, 320, -256, 768, 192, -384,
      640, 64, -512, 512, 1536, -640, 384, 1408, -768, 256,
      1280, -896, 128, 1152, -1024, 0, 1024, 2048, 3072, -2304,
      -1280, -256, 768, 1792, 2816, -2560, -1536, -512, 512, 1536,
      2560, -2816, -1792, -768, 256, 1280, 2304, -3072, -2048, -1024,
      0, 1024, 2048, 3072, 4096, 5120, 6144, -5632, -4608, -3584,
      -2560, -1536, -512, 512, 1536, 2560, 3584, 4608, 5632, -6144,
      -5120, -4096, -3072, -2048, -1024, 0, 1024, 2048, 3072, 4096,
      5120, 6144, -5632, -4608, -3584, -2560, -1536, -512, 512, 1536,
      2560, 3584, 4608, 5632, -6144, -5120, -4096, -3072, -2048, -1024,
      0>>

Err(n) == DblErr[n + 1]

\* round(x, 1), in tenths: ties are decided by the double's true value,
\* and an exact tie goes to the even digit
round1(n) ==
    LET q == n \div 10
        r == n % 10
    IN  IF r < 5 THEN q
        ELSE IF r > 5 THEN q + 1
        ELSE IF Err(n) > 0 THEN q + 1
        ELSE IF Err(n) < 0 THEN q
        ELSE IF q % 2 = 0 THEN q ELSE q + 1

-----------------------------------------------------------------------------
(* DocTypeDetection.py                                                     *)

DrawingTypes == <<"pump_station", "standards_detail", "piping_diagram",
                  "floor_plan", "site_plan", "specification_table">>
UNKNOWN == "unknown"

\* keywords, in the order of the dict literal
keywords ==
    [pump_station        |-> <<"PUMP STATION", "PUMP", "WETWELL", "GPM", "TDH">>,
     standards_detail    |-> <<"STANDARD DETAIL", "ACCORDANCE WITH", "MINIMUM", "SEPARATION">>,
     piping_diagram      |-> <<"P&ID", "PIPING", "VALVE", "FLOW">>,
     floor_plan          |-> <<"FLOOR PLAN", "ROOM", "ELEVATION", "LEVEL">>,
     site_plan           |-> <<"SITE PLAN", "PROPERTY LINE", "LOT", "SETBACK">>,
     specification_table |-> <<"SPECIFICATION", "REQUIREMENT", "TABLE">>]

Disciplines == <<"mechanical", "civil", "electrical", "structural", "plumbing">>

discipline_keywords ==
    [mechanical |-> <<"MECHANICAL", "HVAC", "PUMP", "VALVE", "GPM">>,
     civil      |-> <<"CIVIL", "SEWER", "STORM", "WATER MAIN", "UTILITY">>,
     electrical |-> <<"ELECTRICAL", "PANEL", "CIRCUIT", "VOLTAGE">>,
     structural |-> <<"STRUCTURAL", "BEAM", "COLUMN", "FOUNDATION">>,
     plumbing   |-> <<"PLUMBING", "SANITARY", "WASTE", "FIXTURE">>]

\* type_scores / disc_scores: the number of the keywords of each key found
Scores(keys, table, text_upper) ==
    [k \in {keys[i] : i \in 1..Len(keys)} |-> CountKeywords(table[k], text_upper)]

\* a max that keeps the last maximal key instead
MaxLast(keys, scores) ==
    LET m == Max({scores[keys[i]] : i \in 1..Len(keys)})
    IN  keys[Max({i \in 1..Len(keys) : scores[keys[i]] = m})]

\* max(scores, key=scores.get) keeps the first maximal key of the dict order
MaxFirst(keys, scores) ==
    LET m == Max({scores[keys[i]] : i \in 1..Len(keys)})
    IN  keys[CHOOSE i \in 1..Len(keys) :
                /\ scores[keys[i]] = m
                /\ \A j \in 1..(i - 1) : scores[keys[j]] < m]

\* Counter(x_rounded): how many items share a rounded left coordinate
detect_table_structure(items) ==
    \E i \in 1..Len(items) :
        Cardinality({j \in 1..Len(items) :
                        round1(items[j].left) = round1(items[i].left)}) > 3

\* The value classify_drawing returns, or the exception it raises.
classify_drawing(ocr_text, items) ==
    LET text_upper    == upper(ocr_text)
        type_scores   == Scores(DrawingTypes, keywords, text_upper)
        max_type      == MaxFirst(DrawingTypes, type_scores)
        detected_type == IF type_scores[max_type] = 0 THEN UNKNOWN ELSE max_type
        disc_scores   == Scores(Disciplines, discipline_keywords, text_upper)
        max_disc      == MaxFirst(Disciplines, disc_scores)
        detected_disc == IF disc_scores[max_disc] = 0 THEN UNKNOWN ELSE max_disc
    IN  IF detected_type \notin DOMAIN type_scores
        THEN \* type_scores[detected_type] in the confidence argument
             [raised |-> "KeyError"]
        ELSE [raised             |-> None,
              drawing_type       |-> detected_type,
              discipline         |-> detected_disc,
              has_table          |-> Contains(text_upper, "TABLE")
                                        \/ detect_table_structure(items),
              has_notes          |-> Contains(text_upper, "NOTE")
                                        \/ Contains(text_upper, "NOTES:"),
              has_legend         |-> Contains(text_upper, "LEGEND")
                                        \/ Contains(text_upper, "KEY:"),
              has_specifications |-> Contains(text_upper, "SPEC")
                                        \/ Contains(text_upper, "SPECIFICATION")
                                        \/ Contains(text_upper, "REQUIREMENT"),
              \* confidence, in tenths
              confidence         |-> type_scores[detected_type]]

-----------------------------------------------------------------------------
(* Regular expressions of the zone schemes.                                *)

\* the end of the longest run of characters of class cls that starts at i
RECURSIVE RunEnd(_, _, _)
RunEnd(s, i, cls) ==
    IF i <= Len(s) /\ Ch(s, i) \in cls THEN RunEnd(s, i + 1, cls) ELSE i

RECURSIVE lstrip(_)
lstrip(s) == IF s # "" /\ Ch(s, 1) \in SpaceChars THEN lstrip(SubSeq(s, 2, Len(s))) ELSE s

RECURSIVE rstrip(_)
rstrip(s) ==
    IF s # "" /\ Ch(s, Len(s)) \in SpaceChars THEN rstrip(SubSeq(s, 1, Len(s) - 1)) ELSE s

\* str.strip()
strip(s) == rstrip(lstrip(s))

\* re.match(r'^\d+\.\s+', text)
MatchNumberedLine(text) ==
    LET d == RunEnd(text, 1, DigitChars)
    IN  /\ d > 1
        /\ d <= Len(text) /\ Ch(text, d) = "."
        /\ RunEnd(text, d + 1, SpaceChars) > d + 1

\* re.match(r'\(\d+\)', text)
MatchParenNumber(text) ==
    /\ Len(text) >= 3 /\ Ch(text, 1) = "("
    /\ LET d == RunEnd(text, 2, DigitChars)
       IN  d > 2 /\ d <= Len(text) /\ Ch(text, d) = ")"

-----------------------------------------------------------------------------
(* Zone schemes.  A comparison  x < extent * 0.15  is made on the exact    *)
(* values,  100 * x < 15 * extent,  which is what the float comparison     *)
(* gives for every coordinate of ZonePool and ItemPool.                    *)

\* max([item['bbox']['top'] + item['bbox'].get('height', 0) for item in text_items])
MaxBottom(items) == Max({items[i].top + items[i].height : i \in 1..Len(items)})

\* max([item['bbox']['left'] + item['bbox'].get('width', 0) for item in text_items])
MaxRight(items) == Max({items[i].left + items[i].width : i \in 1..Len(items)})

\* a top threshold that does not scale with the page height
InTopFixed(item, page_height) == item.top < 15

InTop(item, page_height) == 100 * item.top < 15 * page_height

\* a middle zone that leaves out the items on its two borders
InMiddleOpen(item, page_height) ==
    15 * page_height < 100 * item.top /\ 100 * item.top < 85 * page_height

InMiddle(item, page_height) ==
    15 * page_height <= 100 * item.top /\ 100 * item.top <= 85 * page_height
InBottom(item, page_height) == 100 * item.top > 85 * page_height

\* DrawingParser._identify_basic_zones: the zones, or the exception of max([])
identify_basic_zones(items) ==
    IF items = <<>>
    THEN [raised |-> "ValueError"]
    ELSE LET page_height == MaxBottom(items)
             top(item) == InTop(item, page_height)
             middle(item) == InMiddle(item, page_height)
             bottom(item) == InBottom(item, page_height)
         IN  [raised |-> None,
              top    |-> SelectSeq(items, top),
              middle |-> SelectSeq(items, middle),
              bottom |-> SelectSeq(items, bottom)]

PumpDataKeywords == <<"PUMP", "GPM", "HP", "TDH", "VOLTS", "AMPS", "RPM",
                      "MODEL", "SERIAL", "DESIGN", "STATIC HEAD">>
ControlLevelKeywords == <<"ALARM", "LAG", "LEAD", "OVERRIDE", "BOTTOM",
                          "TOP", "INVERT", "LWL">>

\* an if/elif chain that lets an item without a control-level keyword fall
\* out of the elevation branch without a zone
PumpZoneOfDropping(item, max_x, max_y) ==
    LET text == strip(item.text)
    IN  IF MatchNumberedLine(text) \/ text = "KEY:" THEN "key_section"
        ELSE IF 100 * item.left > 65 * max_x
        THEN (IF AnyKeyword(PumpDataKeywords, upper(text))
              THEN "pump_data_box" ELSE "general")
        ELSE IF Contains(upper(text), "EL") \/ Contains(upper(text), "ELEVATION")
        THEN (IF AnyKeyword(ControlLevelKeywords, upper(text))
              THEN "elevation_labels" ELSE "dropped")
        ELSE IF 100 * item.top > 85 * max_y THEN "title_block"
        ELSE "general"

\* PumpStationParser._identify_zones: the zone the if/elif chain appends item to
PumpZoneOf(item, max_x, max_y) ==
    LET text == strip(item.text)
    IN  IF MatchNumberedLine(text) \/ text = "KEY:" THEN "key_section"
        ELSE IF 100 * item.left > 65 * max_x
        THEN (IF AnyKeyword(PumpDataKeywords, upper(text))
              THEN "pump_data_box" ELSE "general")
        ELSE IF Contains(upper(text), "EL") \/ Contains(upper(text), "ELEVATION")
        THEN (IF AnyKeyword(ControlLevelKeywords, upper(text))
              THEN "elevation_labels" ELSE "general")
        ELSE IF 100 * item.top > 85 * max_y THEN "title_block"
        ELSE "general"

PumpZoneNames == {"key_section", "pump_data_box", "elevation_labels",
                  "title_block", "general"}

\* PumpStationParser._identify_zones: the zones, or the exception of max([])
pump_identify_zones(items) ==
    IF items = <<>>
    THEN [raised |-> "ValueError"]
    ELSE LET max_x == MaxRight(items)
             max_y == MaxBottom(items)
             key_section(item) == PumpZoneOf(item, max_x, max_y) = "key_section"
             pump_data_box(item) == PumpZoneOf(item, max_x, max_y) = "pump_data_box"
             elevation_labels(item) == PumpZoneOf(item, max_x, max_y) = "elevation_labels"
             title_block(item) == PumpZoneOf(item, max_x, max_y) = "title_block"
             general(item) == PumpZoneOf(item, max_x, max_y) = "general"
         IN  [raised           |-> None,
              key_section      |-> SelectSeq(items, key_section),
              pump_data_box    |-> SelectSeq(items, pump_data_box),
              elevation_labels |-> SelectSeq(items, elevation_labels),
              title_block      |-> SelectSeq(items, title_block),
              general          |-> SelectSeq(items, general)]

\* StandardsDetailParser._identify_zones: the zone the if/elif chain appends item to
StdZoneOf(item) ==
    IF item.top > 85 THEN "title"
    ELSE IF Contains(lower(item.text), "minimum") \/ Contains(lower(item.text), "ft")
    THEN "table_area"
    ELSE IF MatchParenNumber(item.text) THEN "notes_area"
    ELSE "diagram_area"

StdZoneNames == {"title", "table_area", "notes_area", "diagram_area"}

\* StandardsDetailParser._identify_zones
std_identify_zones(items) ==
    LET title(item) == StdZoneOf(item) = "title"
        table_area(item) == StdZoneOf(item) = "table_area"
        notes_area(item) == StdZoneOf(item) = "notes_area"
        diagram_area(item) == StdZoneOf(item) = "diagram_area"
    IN  [raised       |-> None,
         title        |-> SelectSeq(items, title),
         table_area   |-> SelectSeq(items, table_area),
         notes_area   |-> SelectSeq(items, notes_area),
         diagram_area |-> SelectSeq(items, diagram_area)]

BasicZoneNames == {"top", "middle", "bottom"}

-----------------------------------------------------------------------------
(* extractors/TableExtractor.py                                            *)

\* tolerance: float = 0.02
RowTolerance == 2

\* abs(a - b) < tolerance on the doubles of a/100, b/100 and the tolerance.
\* The subtraction of two doubles this close is exact, so when the decimal
\* values differ by the tolerance the representation errors decide.
WithinTolerance(a, b) ==
    LET hi == IF a >= b THEN a ELSE b
        lo == IF a >= b THEN b ELSE a
    IN  IF hi - lo # RowTolerance
        THEN hi - lo < RowTolerance
        ELSE Err(hi) - Err(lo) < Err(RowTolerance)

\* the position sorted() gives x in the already sorted seq: after every
\* element whose key is not larger (the sort is stable)
RECURSIVE InsertByKey(_, _, _)
InsertByKey(seq, x, key) ==
    IF seq = <<>> THEN <<x>>
    ELSE IF x[key] < Head(seq)[key] THEN <<x>> \o seq
    ELSE <<Head(seq)>> \o InsertByKey(Tail(seq), x, key)

RECURSIVE SortedByKey(_, _)
\* sorted(items, key=lambda x: x['bbox'][key])
SortedByKey(items, key) ==
    IF items = <<>> THEN <<>>
    ELSE InsertByKey(SortedByKey(SubSeq(items, 1, Len(items) - 1), key),
                     items[Len(items)], key)

RECURSIVE ClusterLoopChained(_, _, _, _)
\* a loop that compares each item with the item before it
ClusterLoopChained(rest, rows, current_row, current_y) ==
    IF rest = <<>> THEN Append(rows, current_row)
    ELSE IF WithinTolerance(Head(rest).top, current_y)
    THEN ClusterLoopChained(Tail(rest), rows, Append(current_row, Head(rest)),
                            Head(rest).top)
    ELSE ClusterLoopChained(Tail(rest), Append(rows, current_row), <<Head(rest)>>,
                            Head(rest).top)

RECURSIVE ClusterLoop(_, _, _, _)
\* the for loop of _cluster_by_rows over sorted_items[1:], and the final append
ClusterLoop(rest, rows, current_row, current_y) ==
    IF rest = <<>> THEN Append(rows, current_row)
    ELSE IF WithinTolerance(Head(rest).top, current_y)
    THEN ClusterLoop(Tail(rest), rows, Append(current_row, Head(rest)), current_y)
    ELSE ClusterLoop(Tail(rest), Append(rows, current_row), <<Head(rest)>>, Head(rest).top)

\* TableExtractor._cluster_by_rows
cluster_by_rows(items) ==
    IF items = <<>> THEN <<>>
    ELSE LET sorted_items == SortedByKey(items, "top")
         IN  ClusterLoop(Tail(sorted_items), <<>>, <<sorted_items[1]>>, sorted_items[1].top)

\* columns in the order the row holds its items
columns_as_given(items) == Texts(items)

\* TableExtractor._cluster_by_columns
cluster_by_columns(items) == Texts(SortedByKey(items, "left"))

\* TableExtractor._format_table, called with a table_data that is not empty
format_table(table_data) ==
    [headers      |-> table_data[1],
     rows         |-> Tail(table_data),
     row_count    |-> Len(Tail(table_data)),
     column_count |-> Len(table_data[1])]

\* a flush that keeps a candidate of one row
FlushAnyTable(tables, current_table) ==
    IF current_table # <<>>
    THEN Append(tables, format_table(current_table))
    ELSE tables

\* if current_table and len(current_table) >= 2: tables.append(...)
FlushTable(tables, current_table) ==
    IF current_table # <<>> /\ Len(current_table) >= 2
    THEN Append(tables, format_table(current_table))
    ELSE tables

RECURSIVE TableLoop(_, _, _)
\* the for loop of extract over rows, and the flush of the last table
TableLoop(rows, tables, current_table) ==
    IF rows = <<>> THEN FlushTable(tables, current_table)
    ELSE LET columns == cluster_by_columns(Head(rows))
         IN  IF Len(columns) >= 2
             THEN TableLoop(Tail(rows), tables, Append(current_table, columns))
             ELSE TableLoop(Tail(rows), FlushTable(tables, current_table), <<>>)

\* TableExtractor.extract
table_extract(items) == TableLoop(cluster_by_rows(items), <<>>, <<>>)

-----------------------------------------------------------------------------
(* Regular expressions of the re module, as the extractors use them.  A     *)
(* pattern is a sequence of elements, matched from left to right with       *)
(* backtracking into the earlier choice, the first alternative and the     *)
(* longest repetition first.  Under re.IGNORECASE the text is matched      *)
(* upper-cased against the upper-cased literals (LitI); the classes of     *)
(* those patterns hold no lower-case letter.                               *)

UpperLetters == {Ch(UpperAlphabet, i) : i \in 1..26}
WordChars == UpperLetters \cup {Ch(LowerAlphabet, i) : i \in 1..26} \cup DigitChars \cup {"_"}

\* a literal string, and a literal string of a pattern under re.IGNORECASE
Lit(str) == [k |-> "lit", s |-> str]
LitI(str) == [k |-> "lit", s |-> upper(str)]
\* between min and max characters of the class cs (of its complement when neg)
Set(cs, neg, min, max) == [k |-> "set", cs |-> cs, neg |-> neg, min |-> min, max |-> max, lazy |-> FALSE]
\* the same, the shortest repetition first: +?
SetLazy(cs, neg, min, max) == [k |-> "set", cs |-> cs, neg |-> neg, min |-> min, max |-> max, lazy |-> TRUE]
\* between min and max repetitions of one of the alternatives, captured as group cap (0: not captured)
Grp(cap, alts, min, max) == [k |-> "grp", cap |-> cap, alts |-> alts, min |-> min, max |-> max]
\* (?=...) and (?!...)
Look(alts, neg) == [k |-> "look", alts |-> alts, neg |-> neg]
\* $, ^ (under re.MULTILINE when ml) and \b
Eos == [k |-> "eos"]
\* $ under re.MULTILINE
Eol == [k |-> "eol"]
Bol(ml) == [k |-> "bol", ml |-> ml]
Wb == [k |-> "wb"]
\* the end of a repetition of a captured group that started at position from
Close(cap, from) == [k |-> "close", cap |-> cap, from |-> from]

\* no limit on a repetition
Many == 1000
\* the groups of the longest pattern
NoCaps == <<<<0, 0>>, <<0, 0>>, <<0, 0>>>>

NoMatch == [ok |-> FALSE]

InClass(c, e) == (c \in e.cs) # e.neg

\* the number of characters of the class of e from pos on, at most e.max
RECURSIVE RunLen(_, _, _, _)
RunLen(e, t, pos, n) ==
    IF n < e.max /\ pos + n <= Len(t) /\ InClass(Ch(t, pos + n), e)
    THEN RunLen(e, t, pos, n + 1) ELSE n

IsWordAt(t, i) == i >= 1 /\ i <= Len(t) /\ Ch(t, i) \in WordChars

RECURSIVE M(_, _, _, _)
RECURSIVE TryCounts(_, _, _, _, _, _, _)
RECURSIVE TryAlts(_, _, _, _, _, _)
RECURSIVE AnyAlt(_, _, _, _)
RECURSIVE MatchSet(_, _, _, _, _, _)
RECURSIVE MatchGrp(_, _, _, _, _, _)

\* the match of pat at pos of t: the first one in the order of the re module
M(pat, t, pos, caps) ==
    IF pat = <<>> THEN [ok |-> TRUE, end |-> pos, caps |-> caps]
    ELSE LET e == Head(pat)
             rest == Tail(pat)
         IN  CASE e.k = "lit" ->
                    IF pos + Len(e.s) - 1 <= Len(t)
                       /\ SubSeq(t, pos, pos + Len(e.s) - 1) = e.s
                    THEN M(rest, t, pos + Len(e.s), caps)
                    ELSE NoMatch
               [] e.k = "set" ->
                    MatchSet(e, rest, t, pos, caps, RunLen(e, t, pos, 0))
               [] e.k = "grp" ->
                    MatchGrp(e, rest, t, pos, caps,
                             IF e.max >= 1 THEN TryAlts(e, 1, rest, t, pos, caps)
                             ELSE NoMatch)
               [] e.k = "close" ->
                    M(rest, t, pos, [caps EXCEPT ![e.cap] = <<e.from, pos>>])
               [] e.k = "look" ->
                    IF AnyAlt(e.alts, 1, t, pos) # e.neg
                    THEN M(rest, t, pos, caps) ELSE NoMatch
               [] e.k = "eos" ->
                    IF pos = Len(t) + 1 \/ (pos = Len(t) /\ Ch(t, pos) = "\n")
                    THEN M(rest, t, pos, caps) ELSE NoMatch
               [] e.k = "eol" ->
                    IF pos = Len(t) + 1 \/ Ch(t, pos) = "\n"
                    THEN M(rest, t, pos, caps) ELSE NoMatch
               [] e.k = "bol" ->
                    IF pos = 1 \/ (e.ml /\ Ch(t, pos - 1) = "\n")
                    THEN M(rest, t, pos, caps) ELSE NoMatch
               [] e.k = "wb" ->
                    IF IsWordAt(t, pos - 1) # IsWordAt(t, pos)
                    THEN M(rest, t, pos, caps) ELSE NoMatch

\* a class that runs over n characters at pos: the longest repetition first,
\* the shortest first when lazy
MatchSet(e, rest, t, pos, caps, n) ==
    IF n < e.min THEN NoMatch
    ELSE TryCounts(e, rest, t, pos, caps, IF e.lazy THEN e.min ELSE n, n)

\* a group: one more repetition (once) if that matches, none if none is needed
MatchGrp(e, rest, t, pos, caps, once) ==
    IF once.ok THEN once
    ELSE IF e.min <= 0 THEN M(rest, t, pos, caps)
    ELSE NoMatch

\* c repetitions of the class of e, then the rest; on failure one fewer (one more when lazy)
TryCounts(e, rest, t, pos, caps, c, n) ==
    LET r == M(rest, t, pos + c, caps)
    IN  IF r.ok THEN r
        ELSE IF e.lazy
        THEN (IF c < n THEN TryCounts(e, rest, t, pos, caps, c + 1, n) ELSE NoMatch)
        ELSE (IF c > e.min THEN TryCounts(e, rest, t, pos, caps, c - 1, n) ELSE NoMatch)

\* one repetition of the group e by its alternative a or a later one, then
\* the remaining repetitions and the rest
TryAlts(e, a, rest, t, pos, caps) ==
    IF a > Len(e.alts) THEN NoMatch
    ELSE LET again == [e EXCEPT !.min = e.min - 1, !.max = e.max - 1]
             tail == (IF e.cap > 0 THEN <<Close(e.cap, pos)>> ELSE <<>>) \o <<again>> \o rest
             r == M(e.alts[a] \o tail, t, pos, caps)
         IN  IF r.ok THEN r ELSE TryAlts(e, a + 1, rest, t, pos, caps)

\* some alternative of a lookahead matches at pos
AnyAlt(alts, a, t, pos) ==
    IF a > Len(alts) THEN FALSE
    ELSE M(alts[a], t, pos, NoCaps).ok \/ AnyAlt(alts, a + 1, t, pos)

\* r is the match of a pattern at from: the match with its start
MatchAt(from, r) ==
    IF r.ok THEN [ok |-> TRUE, start |-> from, end |-> r.end, caps |-> r.caps]
    ELSE NoMatch

RECURSIVE SearchIn(_, _, _, _)
RECURSIVE SearchRight(_, _, _, _, _)
\* the leftmost match of pat in t that starts at one of lo..hi: the one of
\* the lower half of the positions, or else the one of the upper half
SearchIn(pat, t, lo, hi) ==
    IF lo > hi THEN NoMatch
    ELSE IF lo = hi THEN MatchAt(lo, M(pat, t, lo, NoCaps))
    ELSE SearchRight(pat, t, (lo + hi) \div 2, hi, SearchIn(pat, t, lo, (lo + hi) \div 2))

\* left is the leftmost match up to mid: left, or the leftmost match after mid
SearchRight(pat, t, mid, hi, left) ==
    IF left.ok THEN left ELSE SearchIn(pat, t, mid + 1, hi)

\* the leftmost match of pat in t that starts at from or later
SearchFrom(pat, t, from) == SearchIn(pat, t, from, Len(t) + 1)

\* the text the re module matches against
Subject(text, ic) == IF ic THEN upper(text) ELSE text

\* match.group(g) of a match m in text: None for a group that took no part
Group(text, m, g) ==
    IF m.caps[g][1] = 0 THEN None ELSE SubSeq(text, m.caps[g][1], m.caps[g][2] - 1)

\* re.search(pat, text, flags)
re_search(pat, text, ic) == SearchFrom(pat, Subject(text, ic), 1)

RECURSIVE FindAllFrom(_, _, _)
RECURSIVE FindAllStep(_, _, _)
\* the successive matches, none overlapping the one before
FindAllFrom(pat, t, from) == FindAllStep(pat, t, SearchFrom(pat, t, from))

\* m is the next match: m and the matches after it
FindAllStep(pat, t, m) ==
    IF ~m.ok THEN <<>>
    ELSE <<m>> \o FindAllFrom(pat, t, IF m.end = m.start THEN m.end + 1 ELSE m.end)

\* the matches that re.findall(pat, text, flags) reports
re_findall(pat, text, ic) == FindAllFrom(pat, Subject(text, ic), 1)

-----------------------------------------------------------------------------
(* extractors/TitleBlockExtractor.py                                       *)

\* a captured group of one pattern
Cap(g, pat) == Grp(g, <<pat>>, 1, 1)

SepChars == {".", "#", "-"} \cup SpaceChars
AlnumDash == UpperLetters \cup DigitChars \cup {"-"}
Alnum == UpperLetters \cup DigitChars
NotNewline(min) == Set({"\n"}, TRUE, min, Many)

DrawingNumberPatterns ==
    <<<<LitI("DWG"), Set(SepChars, FALSE, 0, Many), Cap(1, <<Set(AlnumDash, FALSE, 1, Many)>>)>>,
      <<LitI("DRAWING"), Set(SepChars, FALSE, 0, Many), Cap(1, <<Set(AlnumDash, FALSE, 1, Many)>>)>>,
      <<LitI("NO."), Set({"."} \cup SpaceChars, FALSE, 0, Many),
        Cap(1, <<Set(AlnumDash, FALSE, 1, Many)>>)>>,
      <<Cap(1, <<Set(UpperLetters, FALSE, 1, 1), Lit("-"), Set(DigitChars, FALSE, 1, Many)>>)>>,
      <<LitI("SHEET"), Set(SepChars, FALSE, 0, Many), Cap(1, <<Set(AlnumDash, FALSE, 1, Many)>>)>>>>

TitlePatterns ==
    <<<<LitI("TITLE"), Set({":"} \cup SpaceChars, FALSE, 1, Many), Cap(1, <<NotNewline(1)>>)>>,
      <<Bol(TRUE), Cap(1, <<Set(UpperLetters \cup SpaceChars, FALSE, 1, Many),
                            LitI("DETAIL"), Set({"S"}, FALSE, 0, 1)>>)>>,
      <<Bol(TRUE), Cap(1, <<Set(UpperLetters \cup SpaceChars, FALSE, 1, Many), LitI("PLAN")>>)>>,
      <<Bol(TRUE), Cap(1, <<Set(UpperLetters \cup SpaceChars, FALSE, 1, Many), LitI("DIAGRAM")>>)>>>>

DateSep == Set({"/", "-"}, FALSE, 1, 1)

DatePatterns ==
    <<<<Cap(1, <<Set(DigitChars, FALSE, 1, 2), DateSep, Set(DigitChars, FALSE, 1, 2), DateSep,
                 Set(DigitChars, FALSE, 2, 4)>>)>>,
      <<Cap(1, <<Set(DigitChars, FALSE, 4, 4), DateSep, Set(DigitChars, FALSE, 1, 2), DateSep,
                 Set(DigitChars, FALSE, 1, 2)>>)>>,
      <<LitI("DATE"), Set({":"} \cup SpaceChars, FALSE, 1, Many), Cap(1, <<NotNewline(1)>>)>>>>

ScalePatterns ==
    <<<<LitI("SCALE"), Set({":"} \cup SpaceChars, FALSE, 1, Many),
        Cap(1, <<Set({"\n", ","}, TRUE, 1, Many)>>)>>,
      <<Cap(1, <<Set(DigitChars, FALSE, 1, Many), Lit(":"), Set(DigitChars, FALSE, 1, Many)>>)>>,
      <<Grp(1, <<<<LitI("NTS")>>, <<LitI("N.T.S.")>>>>, 1, 1)>>,
      <<Cap(1, <<Lit("1/"), Set(DigitChars, FALSE, 1, Many), Set({"\""}, FALSE, 0, 1),
                 Set(SpaceChars, FALSE, 0, Many), Lit("="), Set(SpaceChars, FALSE, 0, Many),
                 Set(DigitChars, FALSE, 1, Many), Set({"'"}, FALSE, 0, 1),
                 Set({"-"}, FALSE, 0, 1), Set(DigitChars, FALSE, 0, Many),
                 Set({"\""}, FALSE, 0, 1)>>)>>>>

RevisionPatterns ==
    <<<<LitI("REV"), Set({".", ":"} \cup SpaceChars, FALSE, 1, Many),
        Cap(1, <<Set(Alnum, FALSE, 1, Many)>>)>>,
      <<LitI("REVISION"), Set({":"} \cup SpaceChars, FALSE, 1, Many),
        Cap(1, <<Set(Alnum, FALSE, 1, Many)>>)>>,
      <<Wb, LitI("REV"), Set(SpaceChars, FALSE, 1, Many), Cap(1, <<Set(Alnum, FALSE, 1, 1)>>), Wb>>>>

SheetPatterns ==
    <<<<LitI("SHEET"), Set({":"} \cup SpaceChars, FALSE, 1, Many),
        Cap(1, <<Set(DigitChars, FALSE, 1, Many)>>), Set(SpaceChars, FALSE, 1, Many),
        LitI("OF"), Set(SpaceChars, FALSE, 1, Many), Cap(2, <<Set(DigitChars, FALSE, 1, Many)>>)>>,
      <<Cap(1, <<Set(DigitChars, FALSE, 1, Many)>>), Set(SpaceChars, FALSE, 1, Many),
        LitI("OF"), Set(SpaceChars, FALSE, 1, Many), Cap(2, <<Set(DigitChars, FALSE, 1, Many)>>)>>>>

RECURSIVE FirstMatch(_, _, _)
RECURSIVE FirstMatchStep(_, _, _, _)
\* for pattern in patterns: match = re.search(pattern, text, re.IGNORECASE); if match: ...
FirstMatch(patterns, text_upper, i) ==
    IF i > Len(patterns) THEN NoMatch
    ELSE FirstMatchStep(patterns, text_upper, i, SearchFrom(patterns[i], text_upper, 1))

\* m is the match of pattern i: m, or the first match of the later patterns
FirstMatchStep(patterns, text_upper, i, m) ==
    IF m.ok THEN m ELSE FirstMatch(patterns, text_upper, i + 1)

\* return match.group(g), stripped or not, or None without a match
GroupOrNone(text, m, g, stripped) ==
    IF ~m.ok THEN None
    ELSE IF stripped THEN strip(Group(text, m, g)) ELSE Group(text, m, g)

\* the group g of the first pattern that matches, or None
FirstGroup(patterns, text, g, stripped) ==
    GroupOrNone(text, FirstMatch(patterns, upper(text), 1), g, stripped)

RECURSIVE split_lines(_, _)
\* text.split('\n'), the line that starts at from and the following ones
split_lines(text, from) ==
    LET e == RunEnd(text, from, {Ch(text, i) : i \in 1..Len(text)} \ {"\n"})
    IN  IF e > Len(text) THEN <<SubSeq(text, from, Len(text))>>
        ELSE <<SubSeq(text, from, e - 1)>> \o split_lines(text, e + 1)

\* str.isupper(): a cased character, and no lower-case one
isupper(s) ==
    /\ \E i \in 1..Len(s) : IsUpper(Ch(s, i))
    /\ \A i \in 1..Len(s) : ~IsLower(Ch(s, i))

\* caps_lines = [line for line in lines if line.isupper() and len(line) > 10]
caps_lines(lines) ==
    LET caps_line(line) == isupper(line) /\ Len(line) > 10
    IN  SelectSeq(lines, caps_line)

\* return caps_lines[0] if caps_lines else None
first_or_none(lines) == IF lines # <<>> THEN lines[1] ELSE None

\* the title of the match m, or the first long line in capitals
title_of(text, m) ==
    IF m.ok THEN strip(Group(text, m, 1))
    ELSE first_or_none(caps_lines(split_lines(text, 1)))

\* TitleBlockExtractor._extract_title
extract_title(text) == title_of(text, FirstMatch(TitlePatterns, upper(text), 1))

\* f"{match.group(1)} of {match.group(2)}", or None without a match
sheet_of(text, m) ==
    IF m.ok THEN Group(text, m, 1) \o " of " \o Group(text, m, 2) ELSE None

\* TitleBlockExtractor._extract_sheet
extract_sheet(text) == sheet_of(text, FirstMatch(SheetPatterns, upper(text), 1))

\* the fields of the title block found in the text of the bottom items
titleblock_fields(text) ==
    [drawing_number |-> FirstGroup(DrawingNumberPatterns, text, 1, FALSE),
     drawing_title  |-> extract_title(text),
     date           |-> FirstGroup(DatePatterns, text, 1, TRUE),
     scale          |-> FirstGroup(ScalePatterns, text, 1, TRUE),
     revision       |-> FirstGroup(RevisionPatterns, text, 1, FALSE),
     sheet_number   |-> extract_sheet(text)]

\* TitleBlockExtractor.extract
titleblock_extract(items) ==
    LET bottom(item) == item.top > 85
    IN  titleblock_fields(full_text(SelectSeq(items, bottom)))

-----------------------------------------------------------------------------
(* extractors/NotesExtractor.py                                            *)

\* findall reports '' for a group that took no part in the match
GroupOrEmpty(text, m, g) == IF m.caps[g][1] = 0 THEN "" ELSE Group(text, m, g)

ParenNumber == <<Lit("("), Set(DigitChars, FALSE, 1, Many), Lit(")")>>

\* r'\((\d+)\)\s+([^\(]+?)(?=\(\d+\)|$)'
NumberedNotePattern ==
    <<Lit("("), Cap(1, <<Set(DigitChars, FALSE, 1, Many)>>), Lit(")"),
      Set(SpaceChars, FALSE, 1, Many),
      Cap(2, <<SetLazy({"("}, TRUE, 1, Many)>>),
      Look(<<ParenNumber, <<Eos>>>>, FALSE)>>

\* r'NOTES?[:\s]+([^\n]+(?:\n(?!NOTE)[^\n]+)*)'
NoteBlockPattern ==
    <<LitI("NOTE"), Set({"S"}, FALSE, 0, 1), Set({":"} \cup SpaceChars, FALSE, 1, Many),
      Cap(1, <<NotNewline(1),
               Grp(0, <<<<Lit("\n"), Look(<<<<LitI("NOTE")>>>>, TRUE), NotNewline(1)>>>>,
                   0, Many)>>)>>

\* r'DISCLAIMER[:\s-]+([^\n]+(?:\n[^\n]+)*)'
DisclaimerPattern ==
    <<LitI("DISCLAIMER"), Set({":", "-"} \cup SpaceChars, FALSE, 1, Many),
      Cap(1, <<NotNewline(1), Grp(0, <<<<Lit("\n"), NotNewline(1)>>>>, 0, Many)>>)>>

\* the records of the numbered notes
NumberedNotes(text, numbered_notes) ==
    [i \in 1..Len(numbered_notes) |->
        [type    |-> "numbered",
         number  |-> GroupOrEmpty(text, numbered_notes[i], 1),
         content |-> strip(GroupOrEmpty(text, numbered_notes[i], 2))]]

\* the records of the note blocks
GeneralNotes(text, note_blocks) ==
    [i \in 1..Len(note_blocks) |->
        [type    |-> "general",
         content |-> strip(GroupOrEmpty(text, note_blocks[i], 1))]]

\* the record of the disclaimer, when the text has the word and the pattern matches
DisclaimerNotes(text, disclaimer_match) ==
    IF Contains(upper(text), "DISCLAIMER") /\ disclaimer_match.ok
    THEN <<[type    |-> "disclaimer",
            content |-> strip(Group(text, disclaimer_match, 1))]>>
    ELSE <<>>

\* the three passes over the text
NoteRecords(text) ==
    NumberedNotes(text, re_findall(NumberedNotePattern, text, FALSE))
    \o GeneralNotes(text, re_findall(NoteBlockPattern, text, TRUE))
    \o DisclaimerNotes(text, re_search(DisclaimerPattern, text, TRUE))

\* NotesExtractor.extract
notes_extract(items) == NoteRecords(full_text(items))

-----------------------------------------------------------------------------
(* extractors/SpecificationExtractor.py                                    *)

\* the alternatives of a group of literal strings under re.IGNORECASE
RECURSIVE LitAlts(_)
LitAlts(strs) == IF strs = <<>> THEN <<>> ELSE <<<<LitI(Head(strs))>>>> \o LitAlts(Tail(strs))

\* r'(\d+\.?\d*)\s*(ft|feet|in|inch|inches|mm|cm|m|"|\'|min|max|minimum|maximum)'
MeasurementPattern ==
    <<Cap(1, <<Set(DigitChars, FALSE, 1, Many), Set({"."}, FALSE, 0, 1),
               Set(DigitChars, FALSE, 0, Many)>>),
      Set(SpaceChars, FALSE, 0, Many),
      Grp(2, LitAlts(<<"ft", "feet", "in", "inch", "inches", "mm", "cm", "m", "\"", "'",
                       "min", "max", "minimum", "maximum">>), 1, 1)>>

\* r'\b(PVC|SS|DI|HDPE|PE|FG|316L?|STEEL|IRON|ALUMINUM|BRASS|COPPER)\b'
MaterialPattern ==
    <<Wb,
      Grp(1, <<<<Lit("PVC")>>, <<Lit("SS")>>, <<Lit("DI")>>, <<Lit("HDPE")>>, <<Lit("PE")>>,
               <<Lit("FG")>>, <<Lit("316"), Set({"L"}, FALSE, 0, 1)>>, <<Lit("STEEL")>>,
               <<Lit("IRON")>>, <<Lit("ALUMINUM")>>, <<Lit("BRASS")>>, <<Lit("COPPER")>>>>, 1, 1),
      Wb>>

\* r'(ASTM|ANSI|API|ASME|AWS|IEEE|NFPA|IBC|UBC|ACI|PVC|AWWA)\s*[A-Z]?[-\s]?\d+[.\d]*'
StandardPattern ==
    <<Grp(1, LitAlts(<<"ASTM", "ANSI", "API", "ASME", "AWS", "IEEE", "NFPA", "IBC", "UBC",
                       "ACI", "PVC", "AWWA">>), 1, 1),
      Set(SpaceChars, FALSE, 0, Many), Set(UpperLetters, FALSE, 0, 1),
      Set({"-"} \cup SpaceChars, FALSE, 0, 1), Set(DigitChars, FALSE, 1, Many),
      Set({"."} \cup DigitChars, FALSE, 0, Many)>>

RECURSIVE find_in(_, _, _, _)
RECURSIVE find_right(_, _, _, _, _)
\* the first position of term in text among lo..hi, 0 when there is none
find_in(text, term, lo, hi) ==
    IF lo > hi THEN 0
    ELSE IF lo = hi
    THEN (IF SubSeq(text, lo, lo + Len(term) - 1) = term THEN lo ELSE 0)
    ELSE find_right(text, term, (lo + hi) \div 2, hi,
                    find_in(text, term, lo, (lo + hi) \div 2))

\* left is the first position up to mid: left, or the first position after mid
find_right(text, term, mid, hi, left) ==
    IF left > 0 THEN left ELSE find_in(text, term, mid + 1, hi)

\* text.find(term): the first position of term at from or later, 0 for -1
find_from(text, term, from) == find_in(text, term, from, Len(text) - Len(term) + 1)

\* a _get_context that searches and cuts the upper-cased text
get_context_upper(text, term, window) ==
    LET idx == find_from(upper(text), upper(term), 1)
        start == IF idx - window > 1 THEN idx - window ELSE 1
        end == IF idx + Len(term) + window - 1 < Len(text)
               THEN idx + Len(term) + window - 1 ELSE Len(text)
    IN  IF idx = 0 THEN "" ELSE strip(SubSeq(upper(text), start, end))

\* _get_context of both classes that define it
get_context(text, term, window) ==
    LET idx == find_from(text, term, 1)
        start == IF idx - window > 1 THEN idx - window ELSE 1
        end == IF idx + Len(term) + window - 1 < Len(text)
               THEN idx + Len(term) + window - 1 ELSE Len(text)
    IN  IF idx = 0 THEN "" ELSE strip(SubSeq(text, start, end))

\* window: int = 50
SpecContextWindow == 50

RECURSIVE Distinct(_)
\* the distinct elements of seq, in the order of their first occurrence
Distinct(seq) ==
    IF seq = <<>> THEN <<>>
    ELSE LET front == Distinct(SubSeq(seq, 1, Len(seq) - 1))
         IN  IF seq[Len(seq)] \in {front[i] : i \in 1..Len(front)}
             THEN front ELSE Append(front, seq[Len(seq)])

HashSeeds == {0, 1}

\* set(materials), iterated: the order follows the hashes of the strings,
\* which the seed of the process decides
set_order(seq, seed) ==
    LET d == Distinct(seq)
    IN  IF seed = 0 THEN d ELSE [i \in 1..Len(d) |-> d[Len(d) + 1 - i]]

\* the records of the measurements
MeasurementRecords(text, measurements) ==
    [i \in 1..Len(measurements) |->
        [type    |-> "measurement",
         value   |-> GroupOrEmpty(text, measurements[i], 1),
         unit    |-> GroupOrEmpty(text, measurements[i], 2),
         context |-> get_context(text,
                                 GroupOrEmpty(text, measurements[i], 1) \o " "
                                     \o GroupOrEmpty(text, measurements[i], 2),
                                 SpecContextWindow)]]

\* the materials found, one string a match
MaterialValues(text, found) == [i \in 1..Len(found) |-> Group(text, found[i], 1)]

\* the records of the materials
MaterialRecords(text, materials) ==
    [i \in 1..Len(materials) |->
        [type    |-> "material",
         value   |-> materials[i],
         context |-> get_context(text, materials[i], SpecContextWindow)]]

\* the records of the standards
StandardRecords(text, standards) ==
    [i \in 1..Len(standards) |->
        [type    |-> "standard",
         value   |-> GroupOrEmpty(text, standards[i], 1),
         context |-> get_context(text, GroupOrEmpty(text, standards[i], 1),
                                 SpecContextWindow)]]

\* the three passes over the text
SpecificationRecords(text, seed) ==
    MeasurementRecords(text, re_findall(MeasurementPattern, text, TRUE))
    \o MaterialRecords(text,
                       set_order(MaterialValues(text, re_findall(MaterialPattern, text, FALSE)),
                                 seed))
    \o StandardRecords(text, re_findall(StandardPattern, text, TRUE))

\* SpecificationExtractor.extract
specification_extract(items, seed) == SpecificationRecords(full_text(items), seed)

-----------------------------------------------------------------------------
(* extractors/ReferenceExtractor.py                                        *)

\* r'SEE\s+(DRAWING|DWG|SHEET|DETAIL)\s+([A-Z0-9-]+)'
DrawingRefPattern ==
    <<LitI("SEE"), Set(SpaceChars, FALSE, 1, Many),
      Grp(1, LitAlts(<<"DRAWING", "DWG", "SHEET", "DETAIL">>), 1, 1),
      Set(SpaceChars, FALSE, 1, Many), Cap(2, <<Set(AlnumDash, FALSE, 1, Many)>>)>>

\* r'(F\.A\.C\.|FAC)\s+(RULE\s+)?(\d+-[\d.]+)'
CodeRefPattern ==
    <<Grp(1, LitAlts(<<"F.A.C.", "FAC">>), 1, 1), Set(SpaceChars, FALSE, 1, Many),
      Grp(2, <<<<LitI("RULE"), Set(SpaceChars, FALSE, 1, Many)>>>>, 0, 1),
      Cap(3, <<Set(DigitChars, FALSE, 1, Many), Lit("-"),
               Set({"."} \cup DigitChars, FALSE, 1, Many)>>)>>

\* r'IN ACCORDANCE WITH\s+([^\n.]+)'
AccordancePattern ==
    <<LitI("IN ACCORDANCE WITH"), Set(SpaceChars, FALSE, 1, Many),
      Cap(1, <<Set({"\n", "."}, TRUE, 1, Many)>>)>>

\* the records of the drawing references
DrawingReferences(text, drawing_refs) ==
    [i \in 1..Len(drawing_refs) |->
        [type           |-> "drawing_reference",
         reference_type |-> GroupOrEmpty(text, drawing_refs[i], 1),
         reference_id   |-> GroupOrEmpty(text, drawing_refs[i], 2)]]

\* the records of the code references
CodeReferences(text, code_refs) ==
    [i \in 1..Len(code_refs) |->
        [type            |-> "regulation",
         regulation_type |-> "Florida Administrative Code",
         code            |-> GroupOrEmpty(text, code_refs[i], 3)]]

\* the records of the accordance references
AccordanceReferences(text, accordance_refs) ==
    [i \in 1..Len(accordance_refs) |->
        [type        |-> "standard_reference",
         description |-> strip(GroupOrEmpty(text, accordance_refs[i], 1))]]

\* the three passes over the text
ReferenceRecords(text) ==
    DrawingReferences(text, re_findall(DrawingRefPattern, text, TRUE))
    \o CodeReferences(text, re_findall(CodeRefPattern, text, TRUE))
    \o AccordanceReferences(text, re_findall(AccordancePattern, text, TRUE))

\* ReferenceExtractor.extract
reference_extract(items) == ReferenceRecords(full_text(items))

-----------------------------------------------------------------------------
(* parsers/StandarDetailsParser.py and parsers/PumpStationParser.py        *)

\* r'(\d+\.?\d*)\s*(ft|feet|in|inch|inches)?\s*(?:is\s+the\s+)?minimum'
MinimumPattern ==
    <<Cap(1, <<Set(DigitChars, FALSE, 1, Many), Set({"."}, FALSE, 0, 1),
               Set(DigitChars, FALSE, 0, Many)>>),
      Set(SpaceChars, FALSE, 0, Many),
      Grp(2, LitAlts(<<"ft", "feet", "in", "inch", "inches">>), 0, 1),
      Set(SpaceChars, FALSE, 0, Many),
      Grp(0, <<<<LitI("is"), Set(SpaceChars, FALSE, 1, Many), LitI("the"),
                 Set(SpaceChars, FALSE, 1, Many)>>>>, 0, 1),
      LitI("minimum")>>

\* r'(\d+\.?\d*)\s*(ft|feet|in|inch)?\s*preferred'
PreferredPattern ==
    <<Cap(1, <<Set(DigitChars, FALSE, 1, Many), Set({"."}, FALSE, 0, 1),
               Set(DigitChars, FALSE, 0, Many)>>),
      Set(SpaceChars, FALSE, 0, Many),
      Grp(2, LitAlts(<<"ft", "feet", "in", "inch">>), 0, 1),
      Set(SpaceChars, FALSE, 0, Many),
      LitI("preferred")>>

\* the window of _get_context in _extract_requirements
RequirementContextWindow == 100

\* the records of one pass of _extract_requirements
Requirements(text, matches, type) ==
    [i \in 1..Len(matches) |->
        LET value == GroupOrEmpty(text, matches[i], 1)
            unit == GroupOrEmpty(text, matches[i], 2)
        IN  [type    |-> type,
             value   |-> value,
             unit    |-> IF unit # "" THEN unit ELSE "unspecified",
             context |-> get_context(text, value \o " " \o type, RequirementContextWindow)]]

\* the two passes over the text
RequirementRecords(text) ==
    Requirements(text, re_findall(MinimumPattern, text, TRUE), "minimum")
    \o Requirements(text, re_findall(PreferredPattern, text, TRUE), "preferred")

\* StandardsDetailParser._extract_requirements
extract_requirements(items) == RequirementRecords(full_text(items))

\* StandardsDetailParser.parse
standards_parse(items, seed) ==
    [document_type  |-> "standards_detail",
     title_block    |-> titleblock_extract(items),
     tables         |-> table_extract(items),
     notes          |-> notes_extract(items),
     specifications |-> specification_extract(items, seed),
     references     |-> reference_extract(items),
     requirements   |-> extract_requirements(items)]

\* the shorthands of the patterns of the pump data
Opt(c) == Set({c}, FALSE, 0, 1)
Spaces == Set(SpaceChars, FALSE, 0, Many)
Sep(cs) == Set(cs \cup SpaceChars, FALSE, 1, Many)
Digits == Cap(1, <<Set(DigitChars, FALSE, 1, Many)>>)
Decimal == Cap(1, <<Set(DigitChars, FALSE, 1, Many), Opt("."), Set(DigitChars, FALSE, 0, Many)>>)
Code == Cap(1, <<Set(AlnumDash, FALSE, 1, Many)>>)
\* ([A-Z0-9\s-]+?)(?:\n|$)
ModelName == <<Cap(1, <<SetLazy(AlnumDash \cup SpaceChars, FALSE, 1, Many)>>),
               Grp(0, <<<<Lit("\n")>>, <<Eol>>>>, 1, 1)>>

\* patterns, in the order of the dict literal and of each list
PumpDataFields ==
    <<"model", "serial_number", "design_capacity_gpm", "design_tdh", "horsepower", "phase",
      "impeller_number", "impeller_diameter", "voltage", "amperage", "shut_off_head",
      "speed_rpm", "static_head", "wetwell_volume_gallons", "wetwell_diameter">>

\* r'(\d+\.?\d*)\s*HP'
HorsepowerSuffixPattern == <<Decimal, Spaces, LitI("HP")>>

PumpDataPatterns ==
    [model |->
        <<<<LitI("PUMP MODEL"), Sep({":"})>> \o ModelName,
          <<LitI("MODEL"), Sep({":"})>> \o ModelName>>,
     serial_number |->
        <<<<LitI("PUMP SERIAL NO"), Sep({".", ":"}), Code>>,
          <<LitI("SERIAL NO"), Sep({".", ":"}), Code>>>>,
     design_capacity_gpm |->
        <<<<LitI("DESIGN CAPACITY"), Sep({":"}), Digits, Spaces, LitI("GPM")>>,
          <<LitI("PUMP DESIGN POINT"), Sep({":"}), Digits, Spaces, LitI("GPM")>>,
          <<Digits, Spaces, LitI("GPM"), Spaces, Lit("@")>>>>,
     design_tdh |->
        <<<<Digits, Spaces, LitI("TDH")>>,
          <<Lit("@"), Spaces, Digits, Spaces, LitI("TDH")>>,
          <<LitI("GPM"), Spaces, Lit("@"), Spaces, Digits>>>>,
     horsepower |->
        <<<<LitI("PUMP H"), Opt("."), LitI("P"), Opt("."), Sep({":"}), Decimal>>,
          HorsepowerSuffixPattern,
          <<Decimal, Spaces, LitI("PHASE")>>>>,
     phase |->
        <<<<Digits, Spaces, LitI("PHASE")>>,
          <<LitI("PHASE"), Sep({":"}), Digits>>>>,
     impeller_number |->
        <<<<LitI("PUMP IMP"), Opt("."), LitI(" NO"), Sep({".", ":", "/"}), Code>>,
          <<LitI("IMP"), Opt("."), Spaces, LitI("NO"), Sep({".", ":"}), Code>>>>,
     impeller_diameter |->
        <<<<LitI("IMP"), Opt("."), Sep({":", "/"}),
            Cap(1, <<Set(DigitChars \cup {"."}, FALSE, 1, Many)>>), Spaces,
            Grp(0, <<<<LitI("DIA")>>, <<Lit("\"")>>>>, 1, 1)>>,
          <<LitI("DIA"), Sep({".", ":"}),
            Cap(1, <<Set(DigitChars \cup {"."}, FALSE, 1, Many)>>)>>>>,
     voltage |->
        <<<<LitI("PUMP VOLTS"), Sep({":"}), Digits>>,
          <<Digits, Spaces, LitI("VOLTS")>>,
          <<Digits, LitI("V")>>>>,
     amperage |->
        <<<<Decimal, Spaces, LitI("AMPS")>>,
          <<LitI("AMPS"), Sep({":"}), Decimal>>>>,
     shut_off_head |->
        <<<<LitI("SHUT"), Set({"-", " "}, FALSE, 1, 1), LitI("OFF HEAD"), Sep({":"}), Digits>>,
          <<LitI("SHUT"), Set({"-", " "}, FALSE, 1, 1), LitI("OFF"), Sep({":"}), Digits,
            Spaces, LitI("FT")>>>>,
     speed_rpm |->
        <<<<LitI("PUMP SPEED"), Sep({":"}), Digits, Spaces, LitI("RPM")>>,
          <<Digits, Spaces, LitI("RPM")>>>>,
     static_head |->
        <<<<LitI("STATIC HEAD"), Sep({":"}), Digits>>,
          <<LitI("STATIC"), Sep({":"}), Digits, Spaces, LitI("FT")>>>>,
     wetwell_volume_gallons |->
        <<<<LitI("WET WELL VOLUME"), Sep({":"}), Digits, Spaces, LitI("GALLONS")>>,
          <<LitI("VOLUME"), Sep({":"}), Digits, Spaces, LitI("GAL")>>>>,
     wetwell_diameter |->
        <<<<Digits, Spaces, LitI("FT"), Opt("."), Spaces, LitI("DIA")>>,
          <<Digits, Set({"'", "\""}, FALSE, 0, 1), Spaces, LitI("DIA"), Opt("."), Spaces,
            LitI("WETWELL")>>,
          <<LitI("DIA"), Opt("."), Spaces, LitI("WETWELL"), Sep({":"}), Digits>>>>]

RECURSIVE FirstValue(_, _, _, _)
RECURSIVE FirstValueStep(_, _, _, _, _)
\* the inner loop of the extraction: the stripped group of the first pattern
\* that matches with a value that is not empty, None when there is none
FirstValue(patterns, text, text_upper, i) ==
    IF i > Len(patterns) THEN None
    ELSE FirstValueStep(patterns, text, text_upper, i, SearchFrom(patterns[i], text_upper, 1))

\* m is the match of pattern i
FirstValueStep(patterns, text, text_upper, i, m) ==
    IF m.ok /\ strip(Group(text, m, 1)) # ""
    THEN strip(Group(text, m, 1))
    ELSE FirstValue(patterns, text, text_upper, i + 1)

\* a special handling that keeps the horsepower the patterns found
keep_horsepower(horsepower, phase, text, hp_match) == horsepower

\* the special handling of the horsepower: when it equals the phase, the
\* number in front of HP, if hp_match found one
disambiguate_horsepower(horsepower, phase, text, hp_match) ==
    IF horsepower # None /\ phase # None /\ horsepower = phase /\ hp_match.ok
    THEN Group(text, hp_match, 1)
    ELSE horsepower

\* the fields found in full_text, then the special handling
pump_data_fields(text, found) ==
    [found EXCEPT !.horsepower =
        disambiguate_horsepower(found.horsepower, found.phase, text,
                                re_search(HorsepowerSuffixPattern, text, TRUE))]

\* the loop over the fields on full_text
pump_data_of(text, text_upper) ==
    pump_data_fields(text,
        [field \in Range(PumpDataFields) |->
            FirstValue(PumpDataPatterns[field], text, text_upper, 1)])

\* pump_text_items: the pump data box, all the items when the box is empty
pump_text_items(items, zones_) ==
    IF zones_.pump_data_box # <<>> THEN zones_.pump_data_box ELSE items

\* PumpStationParser._extract_pump_data
extract_pump_data(items, zones_) ==
    pump_data_of(full_text(pump_text_items(items, zones_)),
                 upper(full_text(pump_text_items(items, zones_))))

\* r'^(\d+)\.\s+(.+)'
KeyLinePattern ==
    <<Digits, Lit("."), Set(SpaceChars, FALSE, 1, Many), Cap(2, <<NotNewline(1)>>)>>

\* r'(\d+\.?\d*(?:/\d+)?)["\']'
SizePattern ==
    <<Cap(1, <<Set(DigitChars, FALSE, 1, Many), Opt("."), Set(DigitChars, FALSE, 0, Many),
               Grp(0, <<<<Lit("/"), Set(DigitChars, FALSE, 1, Many)>>>>, 0, 1)>>),
      Set({"\"", "'"}, FALSE, 1, 1)>>

\* material_map, in the order of the dict literal
material_map ==
    <<<<"FG", "Flanged">>, <<"DI", "Ductile Iron">>, <<"SS", "Stainless Steel">>,
      <<"316L SS", "316L Stainless Steel">>, <<"316 SS", "316 Stainless Steel">>,
      <<"PVC", "PVC">>, <<"HDPE", "HDPE">>, <<"PE", "Polyethylene">>,
      <<"PVCC", "PVCC">>, <<"MJ", "Mechanical Joint">>, <<"BRASS", "Brass">>,
      <<"ALUMINUM", "Aluminum">>, <<"GALV", "Galvanized">>>>

\* a type table that declares the four kinds of valve before VALVE
type_keywords_kinds_first ==
    <<<<"PUMP", "Pump">>,
      <<"GATE VALVE", "Gate Valve">>, <<"BALL VALVE", "Ball Valve">>,
      <<"CHECK VALVE", "Check Valve">>, <<"PLUG VALVE", "Plug Valve">>,
      <<"VALVE", "Valve">>,
      <<"BEND", "Bend/Elbow">>, <<"ELBOW", "Elbow">>, <<"TEE", "Tee">>,
      <<"REDUCER", "Reducer">>, <<"FLANGE", "Flange">>, <<"NIPPLE", "Nipple">>,
      <<"COUPLING", "Coupling">>, <<"BUSHING", "Bushing">>, <<"PIPE", "Pipe">>,
      <<"GAUGE", "Gauge">>, <<"TRANSMITTER", "Transmitter">>,
      <<"TRANSDUCER", "Transducer">>, <<"FLOAT SWITCH", "Float Switch">>,
      <<"HATCH", "Hatch">>, <<"SUPPORT", "Support">>, <<"BOLT", "Bolt">>,
      <<"CABLE", "Cable">>, <<"RAIL", "Rail">>>>

\* type_keywords, in the order of the dict literal
type_keywords ==
    <<<<"PUMP", "Pump">>, <<"VALVE", "Valve">>,
      <<"GATE VALVE", "Gate Valve">>, <<"BALL VALVE", "Ball Valve">>,
      <<"CHECK VALVE", "Check Valve">>, <<"PLUG VALVE", "Plug Valve">>,
      <<"BEND", "Bend/Elbow">>, <<"ELBOW", "Elbow">>, <<"TEE", "Tee">>,
      <<"REDUCER", "Reducer">>, <<"FLANGE", "Flange">>, <<"NIPPLE", "Nipple">>,
      <<"COUPLING", "Coupling">>, <<"BUSHING", "Bushing">>, <<"PIPE", "Pipe">>,
      <<"GAUGE", "Gauge">>, <<"TRANSMITTER", "Transmitter">>,
      <<"TRANSDUCER", "Transducer">>, <<"FLOAT SWITCH", "Float Switch">>,
      <<"HATCH", "Hatch">>, <<"SUPPORT", "Support">>, <<"BOLT", "Bolt">>,
      <<"CABLE", "Cable">>, <<"RAIL", "Rail">>>>

\* qty_patterns
QuantityPatterns ==
    <<<<Lit("("), Digits, Spaces, LitI("REQ"), Opt("."), Lit(")")>>,
      <<Lit("("), Digits, Spaces, LitI("REQUIRED"), Lit(")")>>,
      <<Digits, Spaces, LitI("REQ"), Opt(".")>>,
      <<LitI("QTY"), Set({":"} \cup SpaceChars, FALSE, 1, Many), Digits>>>>

\* manufacturer_patterns
ManufacturerWords == <<"HYDROMATIC", "MANUFACTURER", "MFR">>

\* r'([A-Z][A-Z\s]+)(?:OR|,|\()'
ManufacturerPattern ==
    <<Cap(1, <<Set(UpperLetters, FALSE, 1, 1),
               Set(UpperLetters \cup SpaceChars, FALSE, 1, Many)>>),
      Grp(0, <<<<Lit("OR")>>, <<Lit(",")>>, <<Lit("(")>>>>, 1, 1)>>

RECURSIVE join_comma(_)
\* ', '.join(names)
join_comma(names) ==
    IF names = <<>> THEN ""
    ELSE IF Len(names) = 1 THEN names[1]
    ELSE names[1] \o ", " \o join_comma(Tail(names))

\* the size of the description: Variable for a blank, a number and the
\* inch sign, or None
size_of(description, size_match) ==
    IF Contains(description, "__\"") \/ Contains(description, "_ _\"") THEN "Variable"
    ELSE IF size_match.ok THEN Group(description, size_match, 1) \o "\"" ELSE None

RECURSIVE materials_of(_, _)
\* the names of the abbreviations of table that the upper-cased description
\* contains, in the order of the table
materials_of(table, description_upper) ==
    IF table = <<>> THEN <<>>
    ELSE (IF Contains(description_upper, table[1][1]) THEN <<table[1][2]>> ELSE <<>>)
         \o materials_of(Tail(table), description_upper)

RECURSIVE type_of(_, _)
\* the name of the first keyword of table that the upper-cased description
\* contains, or None
type_of(table, description_upper) ==
    IF table = <<>> THEN None
    ELSE IF Contains(description_upper, table[1][1]) THEN table[1][2]
    ELSE type_of(Tail(table), description_upper)

\* the quantity of the first pattern that matches, '1' without a match
quantity_of(description, qty_match) ==
    IF qty_match.ok THEN Group(description, qty_match, 1) ELSE "1"

\* the manufacturer, when the description names one of the words
manufacturer_of(description, mfr_match) ==
    IF AnyKeyword(ManufacturerWords, upper(description)) /\ mfr_match.ok
    THEN strip(Group(description, mfr_match, 1))
    ELSE None

\* PumpStationParser._parse_component_description
parse_component_description(item_number, description) ==
    [item_number   |-> item_number,
     description   |-> description,
     size          |-> size_of(description, re_search(SizePattern, description, FALSE)),
     size_variable |-> Contains(description, "__\"") \/ Contains(description, "_ _\""),
     material      |-> IF materials_of(material_map, upper(description)) = <<>> THEN None
                       ELSE join_comma(materials_of(material_map, upper(description))),
     type          |-> type_of(type_keywords, upper(description)),
     quantity      |-> quantity_of(description,
                                   FirstMatch(QuantityPatterns, upper(description), 1)),
     manufacturer  |-> manufacturer_of(description,
                                       re_search(ManufacturerPattern, description, FALSE))]

\* last_y = None
NoY == -1

\* if current_component and current_text_parts: components.append(...)
SaveComponent(components, current_component, current_text_parts) ==
    IF current_component # None /\ current_text_parts # <<>>
    THEN Append(components,
                parse_component_description(current_component, join(current_text_parts)))
    ELSE components

RECURSIVE ComponentLoop(_, _, _, _, _)
RECURSIVE ComponentStep(_, _, _, _, _, _, _)
\* the for loop of _extract_components over sorted_items, and the save of
\* the last component
ComponentLoop(rest, components, current_component, current_text_parts, last_y) ==
    IF rest = <<>>
    THEN SaveComponent(components, current_component, current_text_parts)
    ELSE ComponentStep(rest, components, current_component, current_text_parts, last_y,
                       strip(Head(rest).text),
                       M(KeyLinePattern, strip(Head(rest).text), 1, NoCaps))

\* one turn of the loop: text is the stripped text of the item, item_match
\* the match of the numbered line
ComponentStep(rest, components, current_component, current_text_parts, last_y, text, item_match) ==
    IF item_match.ok
    THEN ComponentLoop(Tail(rest),
                       SaveComponent(components, current_component, current_text_parts),
                       Group(text, item_match, 1), <<Group(text, item_match, 2)>>,
                       Head(rest).top)
    ELSE IF /\ current_component # None
            /\ last_y # NoY /\ last_y # 0
            /\ WithinTolerance(Head(rest).top, last_y)
    THEN ComponentLoop(Tail(rest), components, current_component,
                       Append(current_text_parts, text), Head(rest).top)
    ELSE ComponentLoop(Tail(rest), components, current_component, current_text_parts,
                       last_y)

\* PumpStationParser._extract_components
extract_components(items, zones_) ==
    ComponentLoop(SortedByKey(zones_.key_section, "top"), <<>>, None, <<>>, NoY)

\* PumpStationParser.parse: the pump data, the components and the fields
\* that the universal extractors fill (the elevations are left out)
pump_parse(items, seed) ==
    [document_type  |-> "pump_station",
     title_block    |-> titleblock_extract(items),
     pump_data      |-> extract_pump_data(items, pump_identify_zones(items)),
     components     |-> extract_components(items, pump_identify_zones(items)),
     notes          |-> notes_extract(items),
     specifications |-> specification_extract(items, seed),
     references     |-> reference_extract(items)]

-----------------------------------------------------------------------------
(* DrawingValidator.py                                                     *)

\* float(value) succeeds, for a value made of digits and dots
float_parses(value) ==
    /\ \E i \in 1..Len(value) : Ch(value, i) \in DigitChars
    /\ \A i \in 1..Len(value) : Ch(value, i) \in DigitChars \cup {"."}
    /\ Cardinality({i \in 1..Len(value) : Ch(value, i) = "."}) <= 1

\* not x, for x a string or None
Falsy(x) == x = None \/ x = ""

RECURSIVE MeasurementErrors(_)
\* the errors of the loop over the specification records
MeasurementErrors(specs) ==
    IF specs = <<>> THEN <<>>
    ELSE (IF Head(specs).type = "measurement" /\ ~float_parses(Head(specs).value)
          THEN <<"Invalid measurement value: " \o Head(specs).value>> ELSE <<>>)
         \o MeasurementErrors(Tail(specs))

\* DrawingValidator.validate: the ValidationResult, or the exception raised
validate(extracted_data) ==
    LET universal_data_ == extracted_data.universal_data
        title_block == universal_data_["titleblock"]
        specs == universal_data_["specification"]
    IN  IF title_block.is_none
        THEN \* title_block.get('drawing_number'), title_block being None
             [raised |-> "AttributeError"]
        ELSE IF specs.is_none
        THEN \* for spec in specs, specs being None
             [raised |-> "TypeError"]
        ELSE LET errors == (IF Falsy(title_block.value.drawing_number)
                            THEN <<"Missing drawing number">> ELSE <<>>)
                           \o MeasurementErrors(specs.value)
             IN  [raised   |-> None,
                  is_valid |-> errors = <<>>,
                  errors   |-> errors,
                  warnings |-> IF Falsy(title_block.value.scale)
                               THEN <<"No scale information found">> ELSE <<>>]

-----------------------------------------------------------------------------
(* Inputs.                                                                 *)

\* a text item: item['text'] and item['bbox'], in hundredths of the page
Item(text, top, left, width, height) ==
    [text |-> text, top |-> top, left |-> left, width |-> width, height |-> height]

\* the lists of at most n elements of S
SeqsUpTo(S, n) == UNION {[1..k -> S] : k \in 0..n}

\* texts handed to the classifier: keywords of several types and
\* disciplines, in both cases, a keyword inside a longer keyword, a keyword
\* that only the join of two items forms, and texts without any keyword
ClassifyPool ==
    {Item("pump station", 50, 10, 10, 2),
     Item("PUMP", 50, 10, 10, 2),
     Item("station", 50, 10, 10, 2),
     Item("Minimum separation", 50, 10, 10, 2),
     Item("VALVE", 50, 10, 10, 2),
     Item("Floor Plan", 50, 10, 10, 2),
     Item("sewer", 50, 10, 10, 2),
     Item("NOTES: lot", 50, 10, 10, 2)}

\* items handed to the zone schemes: every rule of every scheme, items
\* that reach the bottom of the page and lists that stop well above it
ZonePool ==
    {Item("1. GATE VALVE", 5, 10, 10, 2),
     Item("KEY:", 10, 10, 10, 10),
     Item("PUMP MODEL", 50, 80, 20, 2),
     Item("EL ALARM", 50, 10, 10, 2),
     Item("EL 5", 10, 10, 10, 0),
     Item("minimum 5 ft", 15, 10, 10, 0),
     Item("(1) note", 90, 10, 10, 10),
     Item("plan", 90, 80, 20, 10)}

\* three rows at top = 0.10, 0.12, 0.14, three items a row at distinct lefts
Grid3x3 ==
    <<Item("r1c1", 10, 10, 5, 1), Item("r1c2", 10, 40, 5, 1), Item("r1c3", 10, 70, 5, 1),
      Item("r2c1", 12, 10, 5, 1), Item("r2c2", 12, 40, 5, 1), Item("r2c3", 12, 70, 5, 1),
      Item("r3c1", 14, 10, 5, 1), Item("r3c2", 14, 40, 5, 1), Item("r3c3", 14, 70, 5, 1)>>

\* items handed to the table extractor: tops closer than, at and beyond the
\* tolerance, two columns
TablePool ==
    {Item("a", 10, 10, 5, 1), Item("b", 10, 40, 5, 1),
     Item("c", 12, 40, 5, 1), Item("d", 13, 10, 5, 1),
     Item("e", 14, 10, 5, 1), Item("f", 30, 40, 5, 1)}

InitRun(inputs, seeds) ==
    /\ text_items \in inputs
    /\ hash_seed \in seeds
    /\ pc = "start"
    /\ classification = Unset
    /\ zones = Unset
    /\ universal_data = EmptyDict
    /\ failed = {}
    /\ specialized_data = Unset
    /\ parser_called = None
    /\ result = Unset
    /\ validation = Unset
    /\ batch_jobs = EmptyDict
    /\ processing_results = EmptyDict
    /\ batch_task = EmptyDict
    /\ response = NoResponse
    /\ deleted = {}

-----------------------------------------------------------------------------
(* The classifier alone.                                                   *)

InitClassify == InitRun(SeqsUpTo(ClassifyPool, MaxClassifyItems), {0})

\* classification = classify_drawing(full_text, text_items)
Classify ==
    /\ pc = "start"
    /\ classification' = classify_drawing(full_text(text_items), text_items)
    /\ pc' = IF classification'.raised = None THEN "classified" ELSE "raised"
    /\ result' = IF classification'.raised = None THEN result
                 ELSE [raised |-> classification'.raised]
    /\ UNCHANGED <<text_items, hash_seed, zones, universal_data, failed,
                   specialized_data, validation, parser_called, app_vars>>

NextClassify == Classify

SpecClassify == InitClassify /\ [][NextClassify]_vars

-----------------------------------------------------------------------------
(* The zone schemes alone.                                                 *)

InitZones == InitRun(SeqsUpTo(ZonePool, MaxZoneItems), {0})

\* zones = self._identify_basic_zones(text_items)
BasicZones ==
    /\ pc = "start"
    /\ zones' = identify_basic_zones(text_items)
    /\ pc' = "basic_zones"
    /\ UNCHANGED <<text_items, hash_seed, classification, universal_data, failed,
                   specialized_data, result, validation, parser_called, app_vars>>

\* PumpStationParser: zones = self._identify_zones(text_items)
PumpZones ==
    /\ pc = "start"
    /\ zones' = pump_identify_zones(text_items)
    /\ pc' = "pump_zones"
    /\ UNCHANGED <<text_items, hash_seed, classification, universal_data, failed,
                   specialized_data, result, validation, parser_called, app_vars>>

\* StandardsDetailParser: zones = self._identify_zones(text_items)
StdZones ==
    /\ pc = "start"
    /\ zones' = std_identify_zones(text_items)
    /\ pc' = "std_zones"
    /\ UNCHANGED <<text_items, hash_seed, classification, universal_data, failed,
                   specialized_data, result, validation, parser_called, app_vars>>

NextZones == BasicZones \/ PumpZones \/ StdZones

SpecZones == InitZones /\ [][NextZones]_vars

-----------------------------------------------------------------------------
(* Properties of the classifier.                                           *)

\* the number of keywords of kws that occur in text, counted as a set
Occurring(kws, text) == Cardinality({i \in 1..Len(kws) : Contains(text, kws[i])})

\* how many keywords of each key of the table occur in the upper-cased text
Counts(keys, table, text_upper) ==
    [k \in 1..Len(keys) |-> Occurring(table[keys[k]], text_upper)]

\* C1: a page text in which no drawing-type keyword occurs is classified
\* as UNKNOWN, and classify_drawing does not fail on it.
C1_NoKeywordIsUnknown ==
    pc # "start" =>
        LET n == Counts(DrawingTypes, keywords, upper(full_text(text_items)))
        IN  (\A k \in DOMAIN n : n[k] = 0)
                => (classification.raised = None
                    /\ classification.drawing_type = UNKNOWN)

\* the winner the claim describes: the most keywords, the first declared on a
\* tie, and UNKNOWN when no keyword occurs at all
Winner(keys, n) ==
    IF \A k \in DOMAIN n : n[k] = 0 THEN UNKNOWN
    ELSE keys[CHOOSE k \in DOMAIN n :
                 /\ \A j \in DOMAIN n : n[j] <= n[k]
                 /\ \A j \in 1..(k - 1) : n[j] < n[k]]

\* C8: with at least one type keyword in the text, the type is the one with the
\* most keywords occurring in the upper-cased text, the first declared on a
\* tie; the discipline follows the same rule over its own table (UNKNOWN when
\* no discipline keyword occurs), whatever the type is.
C8_HighestCountFirstDeclared ==
    pc # "start" =>
        LET text_upper == upper(full_text(text_items))
            n == Counts(DrawingTypes, keywords, text_upper)
            d == Counts(Disciplines, discipline_keywords, text_upper)
        IN  (\E k \in DOMAIN n : n[k] > 0)
                => /\ classification.raised = None
                   /\ classification.drawing_type = Winner(DrawingTypes, n)
                   /\ classification.discipline = Winner(Disciplines, d)

\* a tie between two types and a tie between two disciplines, each won by
\* the one declared first
C8_Witness ==
    /\ pc = "classified"
    /\ classification.drawing_type = "piping_diagram"
    /\ classification.discipline = "mechanical"
    /\ LET text_upper == upper(full_text(text_items))
       IN  /\ Occurring(keywords["floor_plan"], text_upper) =
                  Occurring(keywords["piping_diagram"], text_upper)
           /\ Occurring(discipline_keywords["civil"], text_upper) =
                  Occurring(discipline_keywords["mechanical"], text_upper)

-----------------------------------------------------------------------------
(* Properties of the zone schemes.                                         *)

\* the number of positions of seq that hold x
Count(seq, x) == Cardinality({i \in 1..Len(seq) : seq[i] = x})

\* the zones of z that hold x
ZonesOf(z, names, x) == {n \in names : x \in Range(z[n])}

\* z assigns every item of items to exactly one zone, as often as the item
\* occurs in items, and holds nothing else
Partitions(z, names, items) ==
    /\ \A x \in Range(items) :
          /\ Cardinality(ZonesOf(z, names, x)) = 1
          /\ \A n \in ZonesOf(z, names, x) : Count(z[n], x) = Count(items, x)
    /\ \A n \in names : Range(z[n]) \subseteq Range(items)

\* C2: on an empty item list zone segmentation ends with an EmptyDocument
\* condition, not with the failure of the maximum of an empty sequence.
C2_EmptyListIsEmptyDocument ==
    (pc = "basic_zones" /\ text_items = <<>>) => zones.raised = "EmptyDocument"

\* C5: for a list that is not empty the zones top, middle and bottom
\* partition the items.
C5_BasicZonesPartition ==
    (pc = "basic_zones" /\ text_items # <<>>)
        => (zones.raised = None /\ Partitions(zones, BasicZoneNames, text_items))

\* a list that fills the three zones
C5_Witness ==
    /\ pc = "basic_zones"
    /\ zones.raised = None
    /\ zones.top # <<>> /\ zones.middle # <<>> /\ zones.bottom # <<>>

\* the rules of the pump-station scheme, as the zone descriptions state them
PumpKeyRule(item) == MatchNumberedLine(strip(item.text)) \/ strip(item.text) = "KEY:"
PumpDataRule(item, items) ==
    /\ 100 * item.left > 65 * MaxRight(items)
    /\ AnyKeyword(PumpDataKeywords, upper(strip(item.text)))
PumpElevationRule(item) ==
    /\ Contains(upper(strip(item.text)), "EL")
    /\ AnyKeyword(ControlLevelKeywords, upper(strip(item.text)))
PumpTitleRule(item, items) == 100 * item.top > 85 * MaxBottom(items)

NoPumpRule(item, items) ==
    /\ ~PumpKeyRule(item)
    /\ ~PumpDataRule(item, items)
    /\ ~PumpElevationRule(item)
    /\ ~PumpTitleRule(item, items)

\* the rules of the standards-detail scheme
NoStdRule(item) ==
    /\ ~(item.top > 85)
    /\ ~Contains(lower(item.text), "minimum") /\ ~Contains(lower(item.text), "ft")
    /\ ~MatchParenNumber(item.text)

\* C6: each specialized scheme assigns every input item to exactly one of its
\* zones, and an item that no rule matches to the default zone.
C6_SpecializedZonesPartition ==
    /\ pc = "pump_zones" =>
          \A x \in Range(text_items) :
              /\ zones.raised = None
              /\ Partitions(zones, PumpZoneNames, text_items)
              /\ NoPumpRule(x, text_items) => x \in Range(zones.general)
    /\ pc = "std_zones" =>
          /\ zones.raised = None
          /\ Partitions(zones, StdZoneNames, text_items)
          /\ \A x \in Range(text_items) :
                NoStdRule(x) => x \in Range(zones.diagram_area)

\* an elevation text without a control level next to a numbered key line
C6_Witness ==
    /\ pc = "pump_zones"
    /\ zones.raised = None
    /\ zones.key_section # <<>>
    /\ \E x \in Range(zones.general) :
          NoPumpRule(x, text_items) /\ Contains(upper(x.text), "EL")

\* C23: in the pump-station scheme elevation_labels holds exactly the items
\* with EL/ELEVATION and a control-level keyword, title_block exactly the
\* items in the bottom 15% of the page, and general only items that satisfy
\* none of the four rules.
C23_ZonesHoldTheirRules ==
    (pc = "pump_zones" /\ zones.raised = None) =>
        \A x \in Range(text_items) :
            /\ x \in Range(zones.elevation_labels) <=> PumpElevationRule(x)
            /\ x \in Range(zones.title_block) <=> PumpTitleRule(x, text_items)
            /\ x \in Range(zones.general) => NoPumpRule(x, text_items)

\* C7 as claimed: the thresholds are the fixed fractions 0.15 and 0.85 of the
\* page, whatever the other items are.
C7_FixedThresholds ==
    (pc = "basic_zones" /\ zones.raised = None) =>
        \A x \in Range(text_items) :
            /\ x \in Range(zones.top) <=> x.top < 15
            /\ x \in Range(zones.bottom) <=> x.top > 85
            /\ x \in Range(zones.middle) <=> (x.top >= 15 /\ x.top <= 85)

\* C7, amended: the thresholds are 0.15 and 0.85 of the page height, the
\* largest top + height of the list: top holds the items with
\* bbox.top < 0.15 * page_height, bottom those with
\* bbox.top > 0.85 * page_height, middle the others.
C7_ScaledThresholds ==
    (pc = "basic_zones" /\ zones.raised = None) =>
        LET page_height == Max({x.top + x.height : x \in Range(text_items)})
        IN  \A x \in Range(text_items) :
                /\ x \in Range(zones.top) <=> 100 * x.top < 15 * page_height
                /\ x \in Range(zones.bottom) <=> 100 * x.top > 85 * page_height
                /\ x \in Range(zones.middle) <=>
                       (100 * x.top >= 15 * page_height
                        /\ 100 * x.top <= 85 * page_height)

\* a list that ends high on the page: an item above the 0.15 line of the
\* page that is in middle
C7_Witness ==
    /\ pc = "basic_zones"
    /\ zones.raised = None
    /\ \E x \in Range(zones.middle) : x.top < 15

-----------------------------------------------------------------------------
(* The table extractor alone.                                              *)

\* two rows of two items, a row of one item, two more rows of two items
SplitPage ==
    <<Item("h1", 10, 10, 5, 1), Item("h2", 10, 40, 5, 1),
      Item("x1", 20, 10, 5, 1), Item("x2", 20, 40, 5, 1),
      Item("lone", 30, 10, 5, 1),
      Item("k1", 40, 10, 5, 1), Item("k2", 40, 40, 5, 1),
      Item("y2", 50, 40, 5, 1), Item("y1", 50, 10, 5, 1)>>

InitTable ==
    InitRun({Grid3x3, SplitPage} \cup SeqsUpTo(TablePool, MaxTableItems), {0})

\* rows = self._cluster_by_rows(text_items)
ClusterByRows ==
    /\ pc = "start"
    /\ universal_data' = ("rows" :> cluster_by_rows(text_items))
    /\ pc' = "rows_clustered"
    /\ UNCHANGED <<text_items, hash_seed, classification, zones, failed,
                   specialized_data, result, validation, parser_called, app_vars>>

\* TableExtractor().extract(text_items, zones)
TableExtract ==
    /\ pc = "start"
    /\ universal_data' = ("table" :> table_extract(text_items))
    /\ pc' = "table_extracted"
    /\ UNCHANGED <<text_items, hash_seed, classification, zones, failed,
                   specialized_data, result, validation, parser_called, app_vars>>

NextTable ==
    \/ ClusterByRows
    \/ TableExtract

SpecTable == InitTable /\ [][NextTable]_vars

\* C10: the 3-by-3 grid with rows at top = 0.10, 0.12, 0.14 gives exactly one
\* table with row_count = 2 and column_count = 3, the first row as headers.
C10_GridIsOneTable ==
    (pc = "table_extracted" /\ text_items = Grid3x3) =>
        /\ Len(universal_data["table"]) = 1
        /\ universal_data["table"][1].row_count = 2
        /\ universal_data["table"][1].column_count = 3
        /\ universal_data["table"][1].headers = <<"r1c1", "r1c2", "r1c3">>
        /\ universal_data["table"][1].rows =
               <<<<"r2c1", "r2c2", "r2c3">>, <<"r3c1", "r3c2", "r3c3">>>>

\* the rows from..to of the clustering are a run of rows of two or more
\* items that no such row precedes or follows
IsQualifyingRun(rows, from, to) ==
    /\ from <= to
    /\ \A i \in from..to : Len(rows[i]) >= 2
    /\ from = 1 \/ Len(rows[from - 1]) < 2
    /\ to = Len(rows) \/ Len(rows[to + 1]) < 2

QualifyingRuns(rows) ==
    {r \in (1..Len(rows)) \X (1..Len(rows)) : IsQualifyingRun(rows, r[1], r[2])}

\* C18: every table record has two or more headers, one or more data rows
\* of two or more cells each, row_count data rows and column_count headers;
\* the tables are exactly the runs of two or more consecutive rows of two
\* or more items, so a shorter run gives no table and a row of one item
\* ends the candidate.
C18_TableRecords ==
    pc = "table_extracted" =>
        LET tables == universal_data["table"]
            rows == cluster_by_rows(text_items)
            runs == {r \in QualifyingRuns(rows) : r[2] > r[1]}
        IN  /\ \A k \in 1..Len(tables) :
                  /\ Len(tables[k].headers) >= 2
                  /\ Len(tables[k].rows) >= 1
                  /\ \A i \in 1..Len(tables[k].rows) : Len(tables[k].rows[i]) >= 2
                  /\ tables[k].row_count = Len(tables[k].rows)
                  /\ tables[k].column_count = Len(tables[k].headers)
            /\ Len(tables) = Cardinality(runs)
            /\ \A r \in runs :
                  \E k \in 1..Len(tables) :
                      /\ tables[k].headers = cluster_by_columns(rows[r[1]])
                      /\ tables[k].rows =
                             [i \in 1..(r[2] - r[1]) |->
                                 cluster_by_columns(rows[r[1] + i])]

\* a row of one item between two runs of two rows: two tables, the lone
\* item in neither
C18_Witness ==
    /\ pc = "table_extracted"
    /\ text_items = SplitPage
    /\ Len(universal_data["table"]) = 2
    /\ universal_data["table"][2].headers = <<"k1", "k2">>
    /\ universal_data["table"][2].rows = <<<<"y1", "y2">>>>

\* the double of top lies less than the double of the tolerance below the
\* double of anchor; |DblErr| stays far below one unit of the hundredths
CloserThanTolerance(top, anchor) ==
    \/ top - anchor < RowTolerance
    \/ /\ top - anchor = RowTolerance
       /\ Err(top) - Err(anchor) < Err(RowTolerance)

\* how often x occurs in seq
Occurrences(seq, x) == Cardinality({i \in DOMAIN seq : seq[i] = x})

RECURSIVE Flatten(_)
Flatten(seqs) == IF seqs = <<>> THEN <<>> ELSE Head(seqs) \o Flatten(Tail(seqs))

\* C19: the rows hold every item exactly once; the anchor of a row is the
\* top of its first item, no item of the row lies above it and every item
\* of the row lies less than the tolerance below it; the first item of each
\* later row lies the tolerance or more below the anchor of the row before.
C19_RowsByAnchor ==
    pc = "rows_clustered" =>
        LET rows == universal_data["rows"]
        IN  /\ Len(Flatten(rows)) = Len(text_items)
            /\ \A x \in Range(text_items) :
                  Occurrences(Flatten(rows), x) = Occurrences(text_items, x)
            /\ \A r \in 1..Len(rows) :
                  /\ rows[r] # <<>>
                  /\ \A i \in 1..Len(rows[r]) :
                        /\ rows[r][i].top >= rows[r][1].top
                        /\ CloserThanTolerance(rows[r][i].top, rows[r][1].top)
            /\ \A r \in 2..Len(rows) :
                  /\ rows[r][1].top > rows[r - 1][1].top
                  /\ ~CloserThanTolerance(rows[r][1].top, rows[r - 1][1].top)

\* a chain of items each closer than the tolerance to the one before, over
\* more than the tolerance in all: two rows
C19_Witness ==
    /\ pc = "rows_clustered"
    /\ Len(text_items) = 4
    /\ {text_items[i].top : i \in 1..4} = {10, 12, 13, 14}
    /\ Len(universal_data["rows"]) = 2
    /\ universal_data["rows"][2][1].top = 13

\* the lists that hold the items of items in another order
PermutationsOf(items) ==
    {[i \in 1..Len(items) |-> items[q[i]]] :
        q \in {f \in [1..Len(items) -> 1..Len(items)] :
                   \A i, j \in 1..Len(items) : f[i] = f[j] => i = j}}

\* no two items of the list have the same top and the same left
DistinctPlaces(items) ==
    \A i, j \in 1..Len(items) :
        (items[i].top = items[j].top /\ items[i].left = items[j].left) => i = j

\* C27: when no two items share top and left, the table extractor returns
\* on every permutation of the list the tables it returned on the list:
\* the same headers, the same rows, in the same order.
C27_OrderOfItemsIrrelevant ==
    (/\ pc = "table_extracted"
     /\ Len(text_items) <= MaxTableItems
     /\ DistinctPlaces(text_items))
        => \A other \in PermutationsOf(text_items) :
               table_extract(other) = universal_data["table"]

\* a table from a list that has the two items of its header row from
\* right to left, and the two items of its data row, which share their
\* left, from bottom to top
C27_Witness ==
    /\ pc = "table_extracted"
    /\ DistinctPlaces(text_items)
    /\ Len(text_items) = 4
    /\ text_items[1].top = text_items[2].top
    /\ text_items[1].left > text_items[2].left
    /\ text_items[3].left = text_items[4].left
    /\ text_items[3].top > text_items[4].top
    /\ Len(universal_data["table"]) = 1

-----------------------------------------------------------------------------
(* A run of DrawingParser.parse on the text items of one page, followed by  *)
(* DrawingValidator.validate on what it returned (app.py, parse_drawing).   *)

\* texts of a title block, of specifications, of notes and of references,
\* keywords of the two types that have a specialized parser, items in the
\* bottom band and above it
ItemPool ==
    {Item("PUMP 6 IN PVC", 50, 10, 10, 2),
     Item("5 ft minimum SS", 20, 40, 10, 2),
     Item("VALVE (1) SEE DWG M-1", 90, 40, 10, 10)}

Init == InitRun(SeqsUpTo(ItemPool, MaxItems), HashSeeds)

\* self.universal_extractors, by the key each one writes
universal_extractors == <<"titleblock", "notes", "specification", "reference", "table">>

\* extractor.extract(text_items, zones) of the extractor that writes key name
extract(name, items, seed) ==
    CASE name = "titleblock"    -> titleblock_extract(items)
      [] name = "notes"         -> notes_extract(items)
      [] name = "specification" -> specification_extract(items, seed)
      [] name = "reference"     -> reference_extract(items)
      [] name = "table"         -> table_extract(items)

\* a try statement that lets the value through although extract raised
extractor_outcome_unguarded(name, raised, items, seed) ==
    Some(extract(name, items, seed))

\* what the try statement of the loop leaves under the key: the value
\* returned, or None when extract raised
extractor_outcome(name, raised, items, seed) ==
    IF raised THEN NoneValue ELSE Some(extract(name, items, seed))

\* a registry that has the two parsers under each other's type
parsers_swapped ==
    [standards_detail |-> "PumpStationParser", pump_station |-> "StandardsDetailParser"]

\* self.parsers: the class of the parser registered for a drawing type
parsers ==
    [standards_detail |-> "StandardsDetailParser", pump_station |-> "PumpStationParser"]

\* parser.parse(text_items) of a parser of the class
specialized_parse(parser, items, seed) ==
    IF parser = "StandardsDetailParser"
    THEN standards_parse(items, seed)
    ELSE pump_parse(items, seed)

\* zones = self._identify_basic_zones(text_items)
IdentifyBasicZones ==
    /\ pc = "classified"
    /\ zones' = identify_basic_zones(text_items)
    /\ pc' = IF zones'.raised = None THEN "zoned" ELSE "raised"
    /\ result' = IF zones'.raised = None THEN result ELSE [raised |-> zones'.raised]
    /\ UNCHANGED <<text_items, hash_seed, classification, universal_data, failed,
                   specialized_data, validation, parser_called, app_vars>>

\* one turn of the loop over self.universal_extractors: the extractor
\* returns, or raises and the except clause stores None
RunExtractor ==
    /\ pc = "zoned"
    /\ \E raised \in BOOLEAN :
          LET i == Cardinality(DOMAIN universal_data) + 1
              name == universal_extractors[i]
          IN  /\ universal_data' =
                     universal_data @@
                     (name :> extractor_outcome(name, raised, text_items, hash_seed))
              /\ failed' = IF raised THEN failed \cup {name} ELSE failed
              /\ pc' = IF i = Len(universal_extractors) THEN "extracted" ELSE "zoned"
    /\ UNCHANGED <<text_items, hash_seed, classification, zones, specialized_data,
                   result, validation, parser_called, app_vars>>

\* step 4: the specialized parser of the type, when there is one; a parser
\* that raises leaves specialized_data empty
RunSpecialized ==
    /\ pc = "extracted"
    /\ \/ /\ classification.drawing_type \in DOMAIN parsers
          /\ parser_called' = parsers[classification.drawing_type]
          /\ \E raised \in BOOLEAN :
                specialized_data' =
                    IF raised THEN EmptyDict
                    ELSE specialized_parse(parser_called', text_items, hash_seed)
       \/ /\ classification.drawing_type \notin DOMAIN parsers
          /\ parser_called' = None
          /\ specialized_data' = EmptyDict
    /\ pc' = "specialized"
    /\ UNCHANGED <<text_items, hash_seed, classification, zones, universal_data,
                   failed, result, validation, app_vars>>

\* step 5: the result, with INCLUDE_RAW_OCR at its default
Return ==
    /\ pc = "specialized"
    /\ result' =
           [raised           |-> None,
            classification   |-> [type       |-> classification.drawing_type,
                                  discipline |-> classification.discipline,
                                  confidence |-> classification.confidence,
                                  has_table  |-> classification.has_table,
                                  has_notes  |-> classification.has_notes,
                                  has_legend |-> classification.has_legend],
            universal_data   |-> universal_data,
            specialized_data |-> specialized_data,
            raw_ocr          |-> None]
    /\ pc' = "returned"
    /\ UNCHANGED <<text_items, hash_seed, classification, zones, universal_data,
                   failed, specialized_data, validation, parser_called, app_vars>>

\* validation_result = validator.validate(result)
Validate ==
    /\ pc = "returned"
    /\ validation' = validate(result)
    /\ pc' = IF validation'.raised = None THEN "validated" ELSE "validate_raised"
    /\ UNCHANGED <<text_items, hash_seed, classification, zones, universal_data,
                   failed, specialized_data, result, parser_called, app_vars>>

Next ==
    \/ Classify
    \/ IdentifyBasicZones
    \/ RunExtractor
    \/ RunSpecialized
    \/ Return
    \/ Validate

Spec == Init /\ [][Next]_vars

\* C3: whatever extractors raise, the loop runs every extractor: the result
\* parse returns has the five keys in universal_data, None under the key of
\* each extractor that raised and, under every other key, what that extractor
\* returns on the items; once the zones are there parse does not raise.
C3_FailureIsolated ==
    /\ pc = "returned" =>
          /\ result.raised = None
          /\ DOMAIN result.universal_data = Range(universal_extractors)
          /\ \A name \in Range(universal_extractors) :
                IF name \in failed
                THEN result.universal_data[name].is_none
                ELSE /\ ~result.universal_data[name].is_none
                     /\ result.universal_data[name].value =
                            extract(name, text_items, hash_seed)
    /\ pc = "raised" => DOMAIN universal_data = {}

\* the notes and the table extractor raised, the title block extractor found
\* a drawing number after them
C3_Witness ==
    /\ pc = "returned"
    /\ failed = {"notes", "table"}
    /\ result.universal_data["notes"].is_none
    /\ result.universal_data["titleblock"].value.drawing_number # None
    /\ result.universal_data["reference"].value # <<>>

\* C4: when exactly one universal extractor raised, validate on the result
\* of parse completes with a ValidationResult.
C4_OneFailureStillValidates ==
    (pc \in {"validated", "validate_raised"} /\ Cardinality(failed) = 1)
        => validation.raised = None

\* C9: when the title block of the result has no drawing number, validate
\* returns is_valid = False with the error "Missing drawing number".
C9_MissingDrawingNumberInvalid ==
    (/\ pc \in {"validated", "validate_raised"}
     /\ ~result.universal_data["titleblock"].is_none
     /\ result.universal_data["titleblock"].value.drawing_number = None)
        => /\ validation.raised = None
           /\ validation.is_valid = FALSE
           /\ \E i \in 1..Len(validation.errors) :
                 validation.errors[i] = "Missing drawing number"

\* C14: parse on the same items returns the same result on every run, the
\* order of the records included: whatever the hash seed of another run of
\* the process, each extractor that returned and the specialized parser
\* return there what the result of this run holds.
C14_SameOutputEveryRun ==
    pc = "returned" =>
        \A seed \in HashSeeds :
            /\ \A name \in Range(universal_extractors) \ failed :
                  result.universal_data[name].value = extract(name, text_items, seed)
            /\ result.specialized_data # EmptyDict =>
                  result.specialized_data =
                      specialized_parse(parser_called, text_items, seed)

-----------------------------------------------------------------------------
(* The text extractors alone: the title block extractor, the specification *)
(* extractor and the requirement pass of the standards-detail parser, each *)
(* on the text items of one page.                                          *)

\* Longest text-item list handed to a text extractor alone, the pages apart.
MaxTextItems == 2

\* a title block in the bottom band of the page
TitlePage == <<Item("DWG NO. C-16 SCALE: 1\"=20' REV A", 90, 10, 30, 5)>>

\* a pipe specification
PipePage == <<Item("PIPE SHALL BE 6 IN PVC PER ASTM D3034", 50, 10, 30, 2)>>

\* a page whose first measurement lies more than 50 characters into the text
LongPage ==
    <<Item("all pipe and fittings below the floor slab shall be of", 40, 10, 60, 2),
      Item("6 IN PVC or 4 in. SS", 50, 10, 30, 2)>>

\* a page whose requirement lies more than 100 characters into the text
RequirementPage ==
    <<Item("all pipe and fittings below the floor slab shall be of", 40, 10, 60, 2),
      Item("ductile iron with a cement lining and a coal tar coat", 45, 10, 60, 2),
      Item("with 3 minimum cover", 50, 10, 30, 2)>>

\* measurements with and without a space before the unit, materials,
\* a standard, requirements with and without a unit, a short title block
TextPool ==
    {Item("6 IN PVC", 50, 10, 10, 2),
     Item("5ft min SS", 50, 40, 10, 2),
     Item("ASTM D3034", 60, 10, 10, 2),
     Item("3 inches minimum", 20, 10, 10, 2),
     Item("2 Preferred", 30, 10, 10, 2),
     Item("DWG C-1 REV B", 90, 40, 10, 5)}

\* two note headers on one page
NotesPage ==
    <<Item("NOTE: FIELD VERIFY", 40, 10, 30, 2), Item("NOTES: SEE PLAN", 50, 10, 30, 2)>>

\* a numbered note with a parenthesis in its text, and a second note
ParenPage ==
    <<Item("(1) SEE (TYP) DETAIL", 40, 10, 30, 2), Item("(2) END", 50, 10, 30, 2)>>

\* two numbered notes
NumberedPage ==
    <<Item("(1) SEE DETAIL", 40, 10, 30, 2), Item("(2) END", 50, 10, 30, 2)>>

InitText ==
    InitRun({TitlePage, PipePage, LongPage, RequirementPage, NotesPage, ParenPage,
             NumberedPage}
                \cup SeqsUpTo(TextPool, MaxTextItems),
            HashSeeds)

\* NotesExtractor().extract(text_items, zones)
NotesExtract ==
    /\ pc = "start"
    /\ universal_data' = ("notes" :> notes_extract(text_items))
    /\ pc' = "notes_extracted"
    /\ UNCHANGED <<text_items, hash_seed, classification, zones, failed,
                   specialized_data, result, validation, parser_called, app_vars>>

\* TitleBlockExtractor().extract(text_items, zones)
TitleBlockExtract ==
    /\ pc = "start"
    /\ universal_data' = ("titleblock" :> titleblock_extract(text_items))
    /\ pc' = "titleblock_extracted"
    /\ UNCHANGED <<text_items, hash_seed, classification, zones, failed,
                   specialized_data, result, validation, parser_called, app_vars>>

\* SpecificationExtractor().extract(text_items, zones)
SpecificationExtract ==
    /\ pc = "start"
    /\ universal_data' = ("specification" :> specification_extract(text_items, hash_seed))
    /\ pc' = "specification_extracted"
    /\ UNCHANGED <<text_items, hash_seed, classification, zones, failed,
                   specialized_data, result, validation, parser_called, app_vars>>

\* StandardsDetailParser()._extract_requirements(text_items, zones)
ExtractRequirements ==
    /\ pc = "start"
    /\ specialized_data' = ("requirements" :> extract_requirements(text_items))
    /\ pc' = "requirements_extracted"
    /\ UNCHANGED <<text_items, hash_seed, classification, zones, universal_data,
                   failed, result, validation, parser_called, app_vars>>

NextText ==
    \/ TitleBlockExtract
    \/ SpecificationExtract
    \/ NotesExtract
    \/ ExtractRequirements

SpecText == InitText /\ [][NextText]_vars

\* C11: on the bottom-zone text  DWG NO. C-16 SCALE: 1"=20' REV A  the title
\* block extractor returns drawing_number C-16, scale 1"=20' and revision A.
C11_TitleBlockExample ==
    (pc = "titleblock_extracted" /\ text_items = TitlePage) =>
        /\ universal_data["titleblock"].drawing_number = "C-16"
        /\ universal_data["titleblock"].scale = "1\"=20'"
        /\ universal_data["titleblock"].revision = "A"

\* the records of the given type in the list the specification extractor returned
RecordsOfType(records, type) == {r \in Range(records) : r.type = type}

\* C12: on the text  PIPE SHALL BE 6 IN PVC PER ASTM D3034  the specification
\* extractor returns a measurement with value 6 and unit IN, a material with
\* value PVC, and a standard whose value contains both ASTM and D3034.
C12_PipeExample ==
    (pc = "specification_extracted" /\ text_items = PipePage) =>
        LET records == universal_data["specification"]
        IN  /\ \E r \in RecordsOfType(records, "measurement") :
                  r.value = "6" /\ r.unit = "IN"
            /\ \E r \in RecordsOfType(records, "material") : r.value = "PVC"
            /\ \E r \in RecordsOfType(records, "standard") :
                  Contains(r.value, "ASTM") /\ Contains(r.value, "D3034")

\* sub is a contiguous part of s
IsSubstring(sub, s) == sub = "" \/ Contains(s, sub)

\* C15: every context the specification extractor and the requirement pass
\* of the standards-detail parser emit is a contiguous substring of the item
\* texts joined by single spaces.
C15_ContextIsSubstring ==
    /\ pc = "specification_extracted" =>
          \A r \in Range(universal_data["specification"]) :
              IsSubstring(r.context, full_text(text_items))
    /\ pc = "requirements_extracted" =>
          \A r \in Range(specialized_data["requirements"]) :
              IsSubstring(r.context, full_text(text_items))

\* a context of a requirement that the window cut out of a longer text
C15_Witness ==
    /\ pc = "requirements_extracted"
    /\ \E r \in Range(specialized_data["requirements"]) :
          /\ r.context # ""
          /\ Len(r.context) < Len(full_text(text_items)) - 2
          /\ IsSubstring(r.context, full_text(text_items))

\* the window of w characters on each side of the n characters at i of text,
\* without the white space at its two ends
WindowAt(text, i, n, w) ==
    strip(SubSeq(text,
                 IF i - w > 1 THEN i - w ELSE 1,
                 IF i + n - 1 + w < Len(text) THEN i + n - 1 + w ELSE Len(text)))

\* the end of value, white space and unit at i of text, 0 when they are not there
SpacedEnd(text, i, value, unit) ==
    IF i + Len(value) - 1 <= Len(text) /\ SubSeq(text, i, i + Len(value) - 1) = value
    THEN LET u == RunEnd(text, i + Len(value), SpaceChars)
         IN  IF u + Len(unit) - 1 <= Len(text) /\ SubSeq(text, u, u + Len(unit) - 1) = unit
             THEN u + Len(unit) ELSE 0
    ELSE 0

\* the first place of text where value stands, followed by unit after any
\* white space: the window around it
MeasurementWindow(text, value, unit, w) ==
    LET places == {i \in 1..Len(text) : SpacedEnd(text, i, value, unit) > 0}
        first == CHOOSE i \in places : \A j \in places : i <= j
    IN  IF places = {} THEN ""
        ELSE WindowAt(text, first, SpacedEnd(text, first, value, unit) - first, w)

\* C20: every record of the specification extractor has a context that is not
\* empty and is the window of up to 50 characters on each side of the first
\* occurrence of the matched text; the context of a measurement contains its
\* value and its unit, however the two are spaced in the text.
C20_ContextIsWindow ==
    pc = "specification_extracted" =>
        \A r \in Range(universal_data["specification"]) :
            /\ r.context # ""
            /\ r.type = "measurement" =>
                  /\ Contains(r.context, r.value) /\ Contains(r.context, r.unit)
                  /\ r.context = MeasurementWindow(full_text(text_items), r.value, r.unit, 50)
            /\ r.type # "measurement" =>
                  r.context = WindowAt(full_text(text_items),
                                       find_from(full_text(text_items), r.value, 1),
                                       Len(r.value), 50)

\* s stands at i of text
StandsAt(text, i, s) ==
    i + Len(s) - 1 <= Len(text) /\ SubSeq(text, i, i + Len(s) - 1) = s

\* the places of text where a header NOTE: or NOTES: stands, in any case
NoteHeaders(text) ==
    {i \in 1..Len(text) :
        StandsAt(upper(text), i, "NOTE:") \/ StandsAt(upper(text), i, "NOTES:")}

\* C21: when the joined text has two or more headers NOTE: / NOTES:, the
\* notes extractor returns one general note per header and no general note
\* contains a header.
C21_NoteStopsAtNextHeader ==
    pc = "notes_extracted" =>
        LET text == full_text(text_items)
            general == {i \in 1..Len(universal_data["notes"]) :
                           universal_data["notes"][i].type = "general"}
        IN  Cardinality(NoteHeaders(text)) >= 2 =>
                /\ Cardinality(general) = Cardinality(NoteHeaders(text))
                /\ \A i \in general :
                      NoteHeaders(universal_data["notes"][i].content) = {}

\* a marker (n) begins at i of text
MarkerAt(text, i) ==
    /\ StandsAt(text, i, "(")
    /\ RunEnd(text, i + 1, DigitChars) > i + 1
    /\ StandsAt(text, RunEnd(text, i + 1, DigitChars), ")")

\* the place after the marker that begins at i
MarkerEnd(text, i) == RunEnd(text, i + 1, DigitChars) + 1

\* the markers of text that white space and then text follow
NoteMarkers(text) ==
    {i \in 1..Len(text) :
        /\ MarkerAt(text, i)
        /\ RunEnd(text, MarkerEnd(text, i), SpaceChars) > MarkerEnd(text, i)
        /\ RunEnd(text, MarkerEnd(text, i), SpaceChars) <= Len(text)}

\* the place of the first marker of text at or after from, or the place
\* after the end of text
NextMarker(text, from) ==
    LET later == {j \in from..Len(text) : MarkerAt(text, j)}
    IN  IF later = {} THEN Len(text) + 1
        ELSE CHOOSE j \in later : \A k \in later : j <= k

\* C22: every marker (n) that white space and text follow gives one
\* numbered note with number n and, as content, the text after the marker
\* up to the next marker or the end of the text; there are no other
\* numbered notes.
C22_EveryMarkerIsANote ==
    pc = "notes_extracted" =>
        LET text == full_text(text_items)
            numbered == {i \in 1..Len(universal_data["notes"]) :
                            universal_data["notes"][i].type = "numbered"}
        IN  /\ Cardinality(numbered) = Cardinality(NoteMarkers(text))
            /\ \A m \in NoteMarkers(text) :
                  \E i \in numbered :
                      /\ universal_data["notes"][i].number =
                             SubSeq(text, m + 1, MarkerEnd(text, m) - 2)
                      /\ universal_data["notes"][i].content =
                             strip(SubSeq(text, MarkerEnd(text, m),
                                          NextMarker(text, MarkerEnd(text, m)) - 1))

\* C26: every requirement record has a context that is not empty and
\* contains the value of the record and, in some case, its keyword minimum
\* or preferred.
C26_RequirementContext ==
    pc = "requirements_extracted" =>
        \A r \in Range(specialized_data["requirements"]) :
            /\ r.context # ""
            /\ Contains(r.context, r.value)
            /\ Contains(lower(r.context), r.type)

-----------------------------------------------------------------------------
(* The pump data of the pump-station parser alone.                         *)

\* Longest text-item list handed to the pump data extraction alone.
MaxPumpItems == 3

\* a phase marker, horsepower figures, the label of the horsepower, and two
\* items on the right of the page that make a pump data box
PumpPool ==
    {Item("3 PHASE", 50, 10, 10, 2),
     Item("5 HP", 50, 10, 10, 2),
     Item("PUMP HP", 50, 10, 10, 2),
     Item("2 HP", 50, 10, 10, 2),
     Item("PUMP HP 3 PHASE 5 HP", 50, 80, 20, 2),
     Item("460 VOLTS", 60, 80, 20, 2)}

InitPump == InitRun(SeqsUpTo(PumpPool, MaxPumpItems), {0})

\* zones = self._identify_zones(text_items), then
\* self._extract_pump_data(text_items, zones)
PumpData ==
    /\ pc = "start"
    /\ zones' = pump_identify_zones(text_items)
    /\ specialized_data' =
           IF zones'.raised = None
           THEN ("pump_data" :> extract_pump_data(text_items, zones'))
           ELSE EmptyDict
    /\ pc' = IF zones'.raised = None THEN "pump_data_extracted" ELSE "raised"
    /\ UNCHANGED <<text_items, hash_seed, classification, universal_data, failed,
                   result, validation, parser_called, app_vars>>

NextPump == PumpData

SpecPump == InitPump /\ [][NextPump]_vars

\* the numbers that the matches of pat capture in text
Figures(pat, text) == {Group(text, m, 1) : m \in Range(re_findall(pat, text, TRUE))}

\* the places where the matches of pat start in text
Starts(pat, text) == {m.start : m \in Range(re_findall(pat, text, TRUE))}

\* text has the phase marker 3 PHASE and, later, the HP-suffixed number 5 HP;
\* 3 is its only phase and 5 its only horsepower figure: no other number
\* stands in front of PHASE or HP, and the number after a PUMP HP label, if
\* there is one, is one of the two
ThreePhaseThenFiveHP(text) ==
    /\ Figures(PumpDataPatterns.phase[1], text) = {"3"}
    /\ Figures(HorsepowerSuffixPattern, text) = {"5"}
    /\ Figures(PumpDataPatterns.horsepower[1], text) \subseteq {"3", "5"}
    /\ \E p \in Starts(PumpDataPatterns.phase[1], text) :
          \E q \in Starts(HorsepowerSuffixPattern, text) : p < q

-----------------------------------------------------------------------------
(* The universal extractors in any order.  Each call is                    *)
(* extractor.extract(text_items, zones) on the list parse holds, under the *)
(* try statement of the loop; the extractors keep no state of their own.   *)

\* Longest text-item list handed to the extractors taken in any order.
MaxOrderItems == 2

InitOrder == InitRun(SeqsUpTo(ItemPool, MaxOrderItems), {0})

\* a table extractor that sorts the list it is given in place
items_after_sorting(name, items) ==
    IF name = "table" THEN SortedByKey(items, "top") ELSE items

\* the list text_items after extractor.extract(text_items, zones): the
\* extractors join the texts or filter the list into new lists, and the
\* table extractor sorts with sorted(), which copies
items_after(name, items) == items

\* any extractor that has not run yet runs: it returns, or raises and the
\* except clause stores None
RunAnyExtractor ==
    /\ pc = "zoned"
    /\ \E name \in Range(universal_extractors) \ DOMAIN universal_data,
          raised \in BOOLEAN :
          /\ universal_data' =
                 universal_data @@
                 (name :> extractor_outcome(name, raised, text_items, hash_seed))
          /\ text_items' = items_after(name, text_items)
          /\ failed' = IF raised THEN failed \cup {name} ELSE failed
          /\ pc' = IF DOMAIN universal_data' = Range(universal_extractors)
                   THEN "extracted" ELSE "zoned"
    /\ UNCHANGED <<hash_seed, classification, zones, specialized_data, result,
                   validation, parser_called, app_vars>>

NextOrder ==
    \/ Classify
    \/ IdentifyBasicZones
    \/ RunAnyExtractor

SpecOrder == InitOrder /\ [][NextOrder]_vars

\* C17: in whatever order the universal extractors run, and whichever of
\* them have run or raised so far, the key of each extractor that returned
\* holds what that extractor returns on the item list, the key of each that
\* raised holds None, and the item list is still the one the zones were
\* taken from.
C17_OrderIndependent ==
    /\ \A name \in DOMAIN universal_data :
          IF name \in failed
          THEN universal_data[name].is_none
          ELSE /\ ~universal_data[name].is_none
               /\ universal_data[name].value = extract(name, text_items, hash_seed)
    /\ pc \in {"zoned", "extracted"} => zones = identify_basic_zones(text_items)
    /\ pc = "extracted" => DOMAIN universal_data = Range(universal_extractors)

\* the table and the specification extractor have run before the title
\* block extractor, on a list that is not sorted by top
C17_Witness ==
    /\ pc = "zoned"
    /\ DOMAIN universal_data = {"table", "specification"}
    /\ failed = {}
    /\ Len(text_items) = 2
    /\ text_items[1].top > text_items[2].top
    /\ Len(universal_data["specification"].value) > 2

-----------------------------------------------------------------------------
(* The component list of the pump-station parser alone, from the zones the *)
(* parser identifies, as PumpStationParser.parse calls it.                 *)

\* Longest text-item list handed to the component pass alone.
MaxComponentItems == 3

\* numbered key lines, one of them at the top edge of the page, a line
\* without a number just below a numbered one, and the KEY: header
ComponentPool ==
    {Item("1. 4\" GATE VALVE", 10, 10, 20, 2),
     Item("FLANGED DI", 11, 10, 20, 2),
     Item("2. PUMP CHECK VALVE (2 REQ.)", 20, 10, 20, 2),
     Item("KEY:", 21, 10, 20, 2),
     Item("3. PVC PIPE", 0, 10, 20, 2)}

InitComponents == InitRun(SeqsUpTo(ComponentPool, MaxComponentItems), {0})

\* zones = self._identify_zones(text_items);
\* self._extract_components(text_items, zones)
ExtractComponents ==
    /\ pc = "start"
    /\ zones' = pump_identify_zones(text_items)
    /\ specialized_data' =
           IF zones'.raised = None
           THEN ("components" :> extract_components(text_items, zones'))
           ELSE EmptyDict
    /\ pc' = IF zones'.raised = None THEN "components_extracted" ELSE "raised"
    /\ UNCHANGED <<text_items, hash_seed, classification, universal_data, failed,
                   result, validation, parser_called, app_vars>>

NextComponents == ExtractComponents

SpecComponents == InitComponents /\ [][NextComponents]_vars

\* the item is a numbered key line, and its number
IsKeyLine(x) == M(KeyLinePattern, strip(x.text), 1, NoCaps).ok
KeyNumber(x) == Group(strip(x.text), M(KeyLinePattern, strip(x.text), 1, NoCaps), 1)

\* C24: an item without a number that lies less than 0.02 below a numbered
\* key line is continuation text: the component of that number has the
\* item's text in its description.
C24_ContinuationAppended ==
    pc = "components_extracted" =>
        \A x \in Range(text_items), y \in Range(text_items) :
            (/\ IsKeyLine(x) /\ ~IsKeyLine(y)
             /\ y.top > x.top /\ CloserThanTolerance(y.top, x.top))
                => \E c \in Range(specialized_data["components"]) :
                       /\ c.item_number = KeyNumber(x)
                       /\ Contains(c.description, strip(y.text))

\* C25: no component has the type Gate Valve, Ball Valve, Check Valve or
\* Plug Valve; a component whose description contains VALVE, in any case,
\* has the type Pump when the description also contains PUMP and the type
\* Valve otherwise.
C25_ValveKindsNeverChosen ==
    pc = "components_extracted" =>
        \A c \in Range(specialized_data["components"]) :
            /\ c.type \notin {"Gate Valve", "Ball Valve", "Check Valve", "Plug Valve"}
            /\ Contains(upper(c.description), "VALVE") =>
                  c.type = IF Contains(upper(c.description), "PUMP")
                           THEN "Pump" ELSE "Valve"

\* a gate valve typed Valve and a pump check valve typed Pump
C25_Witness ==
    /\ pc = "components_extracted"
    /\ \E c \in Range(specialized_data["components"]) :
          Contains(c.description, "GATE VALVE") /\ c.type = "Valve"
    /\ \E c \in Range(specialized_data["components"]) :
          Contains(c.description, "CHECK VALVE") /\ c.type = "Pump"

-----------------------------------------------------------------------------
(* app.py: the batch endpoints and the background task of a batch.  The    *)
(* handlers and the task are coroutines of one event loop: a handler, and  *)
(* a stretch of the task between two awaits, run without another coroutine *)
(* in between; process_single_file runs on a thread of the executor.  The  *)
(* outcome of parsing a file comes from the OCR service and the parser     *)
(* and is either of the two; time stamps are left out.                     *)

\* Most files in one batch.
MaxFiles == 2

\* the ids that uuid4 gives the batches, and an id that no batch has
BatchIds == {"b1", "b2"}
RequestedIds == BatchIds \cup {"b0"}

\* class BatchStatus
QUEUED == "queued"
PROCESSING == "processing"
COMPLETED == "completed"
FAILED == "failed"
PARTIAL == "partial"
FinalStatuses == {COMPLETED, FAILED, PARTIAL}

\* the request_id that batch_parse gives file i of batch b
RequestId(b, i) == <<b, i>>

\* del d[k]
Without(d, k) == [x \in DOMAIN d \ {k} |-> d[x]]

\* d[k] = v
With(d, k, v) == (k :> v) @@ d

\* a progress that counts every processed file as succeeded
progress_all_succeeded(total, processed, failed_count) ==
    [total |-> total, processed |-> processed, succeeded |-> processed,
     failed |-> failed_count]

\* the progress dict that process_batch_files stores after each file
progress_of(total, processed, failed_count) ==
    [total |-> total, processed |-> processed, succeeded |-> processed - failed_count,
     failed |-> failed_count]

\* a final status that is failed as soon as one file failed
final_status_strict(failed_count, total) ==
    IF failed_count = 0 THEN COMPLETED ELSE FAILED

\* the final status of process_batch_files
final_status(failed_count, total) ==
    IF failed_count = 0 THEN COMPLETED
    ELSE IF failed_count = total THEN FAILED
    ELSE PARTIAL

\* what process_single_file returns for the request, by its outcome
file_result(request_id, outcome) == [request_id |-> request_id, status |-> outcome]

\* what process_single_file stores in processing_results
stored_result(request_id) == [metadata |-> [request_id |-> request_id]]

\* no coroutine is between two of its awaits: the event loop takes the next one
LoopIdle == \A b \in DOMAIN batch_task : batch_task[b].pc # "running"

InitApp == InitRun({<<>>}, {0})

\* POST /batch/parse with n files: rejected with 400 for the OCR method or
\* a file name, ended with 500 when a file cannot be saved, or the job is
\* stored and the task added
batch_parse ==
    /\ LoopIdle
    /\ \E n \in 0..MaxFiles, outcome \in {"accepted", "rejected", "save_failed"} :
          IF outcome = "accepted"
          THEN \E batch_id \in BatchIds \ DOMAIN batch_task :
                  /\ batch_jobs' =
                         With(batch_jobs, batch_id,
                              [batch_id    |-> batch_id,
                               status      |-> QUEUED,
                               total_files |-> n,
                               progress    |-> progress_of(n, 0, 0)])
                  /\ batch_task' =
                         With(batch_task, batch_id,
                              [pc |-> "scheduled", total |-> n, results |-> <<>>,
                               processed |-> 0, failed |-> 0, worker |-> "idle",
                               outcome |-> None, raised |-> None])
                  /\ response' = [endpoint |-> "batch_parse", code |-> 200,
                                  batch_id |-> batch_id, status |-> QUEUED]
          ELSE /\ response' = [endpoint |-> "batch_parse",
                               code |-> IF outcome = "rejected" THEN 400 ELSE 500,
                               batch_id |-> None, status |-> None]
               /\ UNCHANGED <<batch_jobs, batch_task>>
    /\ UNCHANGED <<parse_vars, processing_results, deleted>>

\* process_batch_files, up to the loop: the status becomes processing
TaskStart(batch_id) ==
    /\ LoopIdle
    /\ batch_id \in DOMAIN batch_task
    /\ batch_task[batch_id].pc = "scheduled"
    /\ IF batch_id \in DOMAIN batch_jobs
       THEN /\ batch_jobs' = [batch_jobs EXCEPT ![batch_id].status = PROCESSING]
            /\ batch_task' = [batch_task EXCEPT ![batch_id].pc = "running"]
       ELSE /\ batch_task' = [batch_task EXCEPT ![batch_id].pc = "crashed",
                                                ![batch_id].raised = "KeyError"]
            /\ UNCHANGED batch_jobs
    /\ UNCHANGED <<parse_vars, processing_results, response, deleted>>

\* the loop takes the next file: await loop.run_in_executor(...)
TaskSubmit(batch_id) ==
    /\ batch_id \in DOMAIN batch_task
    /\ batch_task[batch_id].pc = "running"
    /\ Len(batch_task[batch_id].results) < batch_task[batch_id].total
    /\ batch_task' = [batch_task EXCEPT ![batch_id].pc = "awaiting",
                                        ![batch_id].worker = "running"]
    /\ UNCHANGED <<parse_vars, batch_jobs, processing_results, response, deleted>>

\* process_single_file on the thread: the result is stored when parse and
\* validate succeed, and the function returns its summary
process_single_file(batch_id) ==
    /\ batch_id \in DOMAIN batch_task
    /\ batch_task[batch_id].worker = "running"
    /\ \E outcome \in {"success", "failed"} :
          /\ processing_results' =
                 IF outcome = "success"
                 THEN With(processing_results,
                           RequestId(batch_id, Len(batch_task[batch_id].results) + 1),
                           stored_result(RequestId(batch_id,
                                                   Len(batch_task[batch_id].results) + 1)))
                 ELSE processing_results
          /\ batch_task' = [batch_task EXCEPT ![batch_id].worker = "returned",
                                              ![batch_id].outcome = outcome]
    /\ UNCHANGED <<parse_vars, batch_jobs, response, deleted>>

\* the task after the await: the result is appended, the counters and the
\* progress of the job are updated
TaskResume(batch_id) ==
    /\ LoopIdle
    /\ batch_id \in DOMAIN batch_task
    /\ batch_task[batch_id].pc = "awaiting"
    /\ batch_task[batch_id].worker = "returned"
    /\ LET t == batch_task[batch_id]
           results == Append(t.results,
                             file_result(RequestId(batch_id, Len(t.results) + 1), t.outcome))
           processed == t.processed + 1
           failed_count == IF t.outcome = "failed" THEN t.failed + 1 ELSE t.failed
       IN  IF batch_id \in DOMAIN batch_jobs
           THEN /\ batch_jobs' =
                       [batch_jobs EXCEPT ![batch_id].progress =
                           progress_of(t.total, processed, failed_count)]
                /\ batch_task' =
                       [batch_task EXCEPT ![batch_id] =
                           [t EXCEPT !.pc = "running", !.worker = "idle",
                                     !.results = results, !.processed = processed,
                                     !.failed = failed_count]]
           ELSE /\ batch_task' =
                       [batch_task EXCEPT ![batch_id] =
                           [t EXCEPT !.pc = "crashed", !.worker = "idle",
                                     !.results = results, !.processed = processed,
                                     !.failed = failed_count, !.raised = "KeyError"]]
                /\ UNCHANGED batch_jobs
    /\ UNCHANGED <<parse_vars, processing_results, response, deleted>>

\* the task after the loop: the final status and the results of the job
TaskFinish(batch_id) ==
    /\ batch_id \in DOMAIN batch_task
    /\ batch_task[batch_id].pc = "running"
    /\ Len(batch_task[batch_id].results) = batch_task[batch_id].total
    /\ IF batch_id \in DOMAIN batch_jobs
       THEN /\ batch_jobs' =
                   [batch_jobs EXCEPT ![batch_id] =
                       With([batch_jobs[batch_id] EXCEPT !.status =
                                final_status(batch_task[batch_id].failed,
                                             batch_task[batch_id].total)],
                            "results", batch_task[batch_id].results)]
            /\ batch_task' = [batch_task EXCEPT ![batch_id].pc = "done"]
       ELSE /\ batch_task' = [batch_task EXCEPT ![batch_id].pc = "crashed",
                                                ![batch_id].raised = "KeyError"]
            /\ UNCHANGED batch_jobs
    /\ UNCHANGED <<parse_vars, processing_results, response, deleted>>

\* GET /batch/{batch_id}
get_batch_status(batch_id) ==
    /\ LoopIdle
    /\ response' =
           IF batch_id \notin DOMAIN batch_jobs
           THEN [endpoint |-> "get_batch_status", code |-> 404,
                 batch_id |-> batch_id, status |-> None]
           ELSE [endpoint |-> "get_batch_status", code |-> 200,
                 batch_id |-> batch_id, status |-> batch_jobs[batch_id].status]
    /\ UNCHANGED <<parse_vars, batch_jobs, processing_results, batch_task, deleted>>

\* the results that get_batch_results compiles: the stored result of each
\* file that succeeded and is still stored, the summary of every other file
compiled_results(job) ==
    IF "results" \notin DOMAIN job THEN <<>>
    ELSE [i \in 1..Len(job["results"]) |->
             IF /\ job["results"][i].status = "success"
                /\ job["results"][i].request_id \in DOMAIN processing_results
             THEN processing_results[job["results"][i].request_id]
             ELSE job["results"][i]]

\* GET /batch/{batch_id}/results
get_batch_results(batch_id) ==
    /\ LoopIdle
    /\ response' =
           IF batch_id \notin DOMAIN batch_jobs
           THEN [endpoint |-> "get_batch_results", code |-> 404,
                 batch_id |-> batch_id, status |-> None]
           ELSE IF batch_jobs[batch_id].status \notin {COMPLETED, PARTIAL}
           THEN [endpoint |-> "get_batch_results", code |-> 400,
                 batch_id |-> batch_id, status |-> batch_jobs[batch_id].status]
           ELSE [endpoint |-> "get_batch_results", code |-> 200,
                 batch_id |-> batch_id, status |-> batch_jobs[batch_id].status,
                 summary |-> batch_jobs[batch_id].progress,
                 results |-> compiled_results(batch_jobs[batch_id])]
    /\ UNCHANGED <<parse_vars, batch_jobs, processing_results, batch_task, deleted>>

\* the stored results that delete_batch removes: those of the files that
\* the results of the job list as succeeded
results_after_delete(job) ==
    IF "results" \notin DOMAIN job THEN processing_results
    ELSE [r \in DOMAIN processing_results \
                   {job["results"][i].request_id :
                       i \in {j \in 1..Len(job["results"]) :
                                 job["results"][j].status = "success"}}
             |-> processing_results[r]]

\* DELETE /batch/{batch_id}
delete_batch(batch_id) ==
    /\ LoopIdle
    /\ IF batch_id \notin DOMAIN batch_jobs
       THEN /\ response' = [endpoint |-> "delete_batch", code |-> 404,
                            batch_id |-> batch_id, status |-> None]
            /\ UNCHANGED <<batch_jobs, processing_results, deleted>>
       ELSE /\ processing_results' = results_after_delete(batch_jobs[batch_id])
            /\ batch_jobs' = Without(batch_jobs, batch_id)
            /\ deleted' = deleted \cup {batch_id}
            /\ response' = [endpoint |-> "delete_batch", code |-> 200,
                            batch_id |-> batch_id, status |-> None]
    /\ UNCHANGED <<parse_vars, batch_task>>

NextApp ==
    \/ batch_parse
    \/ \E batch_id \in BatchIds :
          \/ TaskStart(batch_id)
          \/ TaskSubmit(batch_id)
          \/ process_single_file(batch_id)
          \/ TaskResume(batch_id)
          \/ TaskFinish(batch_id)
    \/ \E batch_id \in RequestedIds :
          \/ get_batch_status(batch_id)
          \/ get_batch_results(batch_id)
          \/ delete_batch(batch_id)

SpecApp == InitApp /\ [][NextApp]_vars

-----------------------------------------------------------------------------
(* Properties of the batch service.                                        *)

\* the number of results of the list with status failed
FailedIn(results) == Cardinality({i \in 1..Len(results) : results[i].status = "failed"})

\* the final status of a job is the one its results call for
FinalStatusFitsResults(job) ==
    /\ "results" \in DOMAIN job
    /\ (job.status = COMPLETED) <=> (FailedIn(job["results"]) = 0)
    /\ (job.status = FAILED) <=> /\ job.total_files > 0
                                 /\ FailedIn(job["results"]) = job.total_files
    /\ (job.status = PARTIAL) <=> /\ FailedIn(job["results"]) > 0
                                  /\ FailedIn(job["results"]) < job.total_files

\* a job starts queued, a queued job becomes processing, a processing job
\* takes a final status, and a final status stays
StatusMovesForward(batch_id) ==
    /\ (batch_id \notin DOMAIN batch_jobs /\ batch_id \in DOMAIN batch_jobs')
          => batch_jobs'[batch_id].status = QUEUED
    /\ (batch_id \in DOMAIN batch_jobs /\ batch_id \in DOMAIN batch_jobs')
          => \/ batch_jobs'[batch_id].status = batch_jobs[batch_id].status
             \/ /\ batch_jobs[batch_id].status = QUEUED
                /\ batch_jobs'[batch_id].status = PROCESSING
             \/ /\ batch_jobs[batch_id].status = PROCESSING
                /\ batch_jobs'[batch_id].status \in FinalStatuses

\* the results endpoint answered with the results of a job
ResultsServed == response.endpoint = "get_batch_results" /\ response.code = 200

\* C28: the status of a batch job only moves forward, from queued to
\* processing to one final status that never changes afterwards; the final
\* status is completed exactly when no file failed, failed exactly when every
\* file of a batch with files failed, and partial otherwise; the results
\* endpoint serves a job only in status completed or partial.
C28_StatusMovesForward ==
    /\ [](\A batch_id \in DOMAIN batch_jobs :
             /\ batch_jobs[batch_id].status \in {QUEUED, PROCESSING} \cup FinalStatuses
             /\ batch_jobs[batch_id].status \in FinalStatuses
                   => FinalStatusFitsResults(batch_jobs[batch_id]))
    /\ [](ResultsServed => response.status \in {COMPLETED, PARTIAL})
    /\ [][\A batch_id \in BatchIds : StatusMovesForward(batch_id)]_vars

\* a batch of two files, one failed, is partial and its results were served,
\* while the other batch, with no file, is completed
C28_Witness ==
    /\ ResultsServed
    /\ response.status = PARTIAL
    /\ \E a, b \in DOMAIN batch_jobs :
          /\ batch_jobs[a].status = PARTIAL
          /\ batch_jobs[b].status = COMPLETED
          /\ batch_jobs[b].total_files = 0

\* the counters of a progress agree with each other
ProgressAddsUp(progress) ==
    /\ progress.processed = progress.succeeded + progress.failed
    /\ 0 <= progress.processed
    /\ progress.processed <= progress.total

\* the results of the job are those of its files, one each, in the order
\* in which batch_parse saved the files
ResultsInSubmissionOrder(batch_id) ==
    /\ "results" \in DOMAIN batch_jobs[batch_id]
    /\ Len(batch_jobs[batch_id]["results"]) = batch_jobs[batch_id].total_files
    /\ \A i \in 1..Len(batch_jobs[batch_id]["results"]) :
          batch_jobs[batch_id]["results"][i].request_id = RequestId(batch_id, i)

\* the processed count of a job that stays in batch_jobs does not go down
ProcessedNeverDecreases(batch_id) ==
    (batch_id \in DOMAIN batch_jobs /\ batch_id \in DOMAIN batch_jobs')
       => batch_jobs'[batch_id].progress.processed >= batch_jobs[batch_id].progress.processed

\* C29: in every state of a job in batch_jobs, processed = succeeded + failed
\* and 0 <= processed <= total; processed never decreases; and when the
\* status is completed, failed or partial, processed = total and the results
\* list has one entry per submitted file, in submission order.
C29_ProgressAddsUp ==
    /\ [](\A batch_id \in DOMAIN batch_jobs :
             /\ ProgressAddsUp(batch_jobs[batch_id].progress)
             /\ batch_jobs[batch_id].progress.total = batch_jobs[batch_id].total_files
             /\ batch_jobs[batch_id].status \in FinalStatuses
                   => /\ batch_jobs[batch_id].progress.processed
                            = batch_jobs[batch_id].progress.total
                      /\ ResultsInSubmissionOrder(batch_id))
    /\ [][\A batch_id \in BatchIds : ProcessedNeverDecreases(batch_id)]_vars

\* one batch is half way, its first file failed and its second is on the
\* thread, and the other batch has ended with one file of two failed
C29_Witness ==
    \E a, b \in DOMAIN batch_jobs :
       /\ batch_jobs[a].status = PROCESSING
       /\ batch_jobs[a].progress = progress_of(MaxFiles, 1, 1)
       /\ batch_task[a].worker = "running"
       /\ batch_jobs[b].status \in FinalStatuses
       /\ batch_jobs[b].progress.failed = 1
       /\ batch_jobs[b].progress.succeeded = batch_jobs[b].total_files - 1

\* C30: once delete_batch has returned for a batch, no parse result of a
\* file of that batch is in processing_results at any later time, and the
\* background task of the batch has not ended with an unhandled exception,
\* however the deletion falls among the steps of the task.
C30_DeleteRemovesEverything ==
    \A batch_id \in deleted :
       /\ \A request_id \in DOMAIN processing_results : request_id[1] # batch_id
       /\ batch_task[batch_id].pc # "crashed"

====
